---- MODULE Spec2Model ----
(***************************************************************************)
(* Model of src/fetch_active_brands.py, class                              *)
(* EnhancedMetaActivityTrackerWithAirtable: the run pipeline (window       *)
(* planning, collection, hierarchy enrichment, merge into the sheet).      *)
(*                                                                         *)
(* Time is counted in ticks, TicksPerHour ticks to the hour.  A timestamp  *)
(* cell of the sheet is a string; FormatTs/ParseTs model strftime and      *)
(* pd.to_datetime on it.  A DataFrame is a sequence of rows, a row is a    *)
(* function from column names to cell values.                              *)
(***************************************************************************)
EXTENDS Integers, Sequences, FiniteSets, TLC

(***************************************************************************)
(* Bounds of the model.                                                    *)
(***************************************************************************)
TicksPerHour == 6
MaxNow == 36
MaxBatch == 2
MaxSheet == 4
MaxDelay == 8
MaxEvents == 2
MaxIdInput == 29
MaxNameLen == 4
MaxPages == 3
MaxAirtable == 2

\* detail calls one pool thread makes
MaxCalls == 2

(***************************************************************************)
(* Program constants.                                                      *)
(***************************************************************************)
Buffer == 2
DefaultHours == 12

\* Optional values: None, or Some(v)
None == <<>>

Some(v) == <<v>>

The(o) == o[1]

VARIABLES
    gspread_client,   \* TRUE: an authorized client, FALSE: None
    sheetExists,      \* the worksheet 'Meta_Activities_Log' exists
    sheet,            \* its rows, as get_all_records returns them
    now,              \* datetime.now(), in ticks
    pc,               \* position of run(): idle, plan, fetch, upload, done
    append_mode,      \* run's mode flag
    hours_arg,        \* run's hours parameter, as passed by the caller
    hours,            \* run's local hours after the smart-fetch calculation
    last_entry_time,  \* what get_last_entry_time_from_sheet returned
    final_df,         \* the rows produced by this run (fetch + mapping)
    existing_df,      \* what read_existing_data_from_sheets returned
    uploaded_df,      \* the frame handed to set_with_dataframe, or None
    before,           \* the sheet's rows when the run started
    invoked,          \* the components this run has invoked
    plan_now,         \* run's local 'now' of the smart-fetch calculation
    since,            \* account -> the 'since' bound of its activity request
    feed,             \* account -> the page responses of its activity feed
    cursor,           \* account -> the page its task requests next
    worker,           \* account -> position of its _process_account task
    activities,       \* account -> the activities still to be resolved
    results,          \* account -> the rows its task has built
    all_activities,   \* the rows fetch_meta_activities has gathered
    debug_stats,      \* the run-level counters
    fetches,          \* <<tier, id>> -> enrichment requests issued for it
    requests,         \* the run's enrichment requests in issue order, each
                      \* <<tier, id, whether it returned the object>>
    returned_df,      \* the frame fetch_meta_activities returned, or None
    arg,              \* the argument of a helper called on its own
    ret               \* what the helper returned, or None before the call

runVars == <<gspread_client, sheetExists, sheet, now, pc, append_mode, hours_arg,
             hours, last_entry_time, final_df, existing_df, uploaded_df, before,
             invoked, plan_now, since>>

helperVars == <<arg, ret>>

enrichState == <<feed, cursor, worker, activities, results, all_activities, debug_stats,
                 fetches, requests, returned_df>>

enrichVars == <<enrichState, helperVars>>

vars == <<runVars, enrichVars>>

(***************************************************************************)
(* Timestamps: strftime('%Y-%m-%d %H:%M:%S') and pd.to_datetime.           *)
(***************************************************************************)
Ticks == 0..MaxNow

Pad2(n) == IF n < 10 THEN "0" \o ToString(n) ELSE ToString(n)

\* strftime: a fixed-width rendering, hour field then the tick within the hour
FormatTs(t) == Pad2(t \div TicksPerHour) \o ":" \o Pad2(t % TicksPerHour)

\* pd.to_datetime(errors='coerce'): the tick a cell denotes, or None (NaT)
ParseTs(s) ==
    IF \E t \in Ticks : FormatTs(t) = s
    THEN Some(CHOOSE t \in Ticks : FormatTs(t) = s)
    ELSE None

\* position of a Timestamp cell in the string order sort_values uses:
\* '' first, then the fixed-width renderings in time order, then letters
StringRank(s) ==
    IF s = "" THEN -1
    ELSE IF ParseTs(s) # None THEN The(ParseTs(s))
    ELSE MaxNow + 1

\* the Timestamp cells of the model: renderings, '' and an unparseable one
TimestampCells == { FormatTs(t) : t \in Ticks } \cup {"", "junk"}

ParseTable == [s \in TimestampCells |-> ParseTs(s)]

RankTable == [s \in TimestampCells |-> StringRank(s)]

TsRank(s) == RankTable[s]

(***************************************************************************)
(* Rows.                                                                   *)
(***************************************************************************)
Row(acc, name, ts, action, camp) ==
    [Account_ID |-> acc, Object_Name |-> name, Timestamp |-> ts,
     Action |-> action, Campaign_Name |-> camp]

\* the rows the upstream feed can yield in this model: two fetches of the
\* same event with different enrichment, two events of one instant, an event
\* without event_time and one whose event_time does not parse
RowPool ==
    { Row("act_1", "A", FormatTs(TicksPerHour), "update", "c1"),
      Row("act_1", "A", FormatTs(TicksPerHour), "update", "c2"),
      Row("act_1", "B", FormatTs(TicksPerHour), "create", "c1"),
      Row("act_2", "A", FormatTs(2 * TicksPerHour + 1), "update", "N/A"),
      Row("act_2", "B", "", "update", "N/A"),
      Row("act_2", "B", "junk", "pause", "c2") }

Accounts == {"act_1", "act_2"}

Range(s) == { s[i] : i \in DOMAIN s }

Count(s, r) == Cardinality({ i \in DOMAIN s : s[i] = r })

\* df.sort_values('Timestamp', ascending=False) leaves s in this order
IsDescending(s) ==
    \A i \in 1..(Len(s) - 1) : TsRank(s[i].Timestamp) >= TsRank(s[i + 1].Timestamp)

IsPermutation(s, t) ==
    /\ Len(s) = Len(t)
    /\ \A r \in Range(s) \cup Range(t) : Count(s, r) = Count(t, r)

(***************************************************************************)
(* DataFrame helpers.                                                      *)
(***************************************************************************)
\* a drop that leaves the column in place
DropColumnKeepsIt(df, col) == df

\* df.drop(col, axis=1)
DropColumn(df, col) ==
    [i \in DOMAIN df |-> [c \in (DOMAIN df[i]) \ {col} |-> df[i][c]]]

\* a frame left in the order it came in
SortValuesSkipped(df) == {df}

\* the orders df.sort_values('Timestamp', ascending=False) can return: the
\* sort is not stable, rows of equal Timestamp come out in any order
SortValuesDescending(df) ==
    { q \in { [i \in DOMAIN df |-> df[f[i]]] : f \in Permutations(DOMAIN df) } :
        IsDescending(q) }

\* the frames fetch_meta_activities can return after mapping: rows of the
\* feed, sorted by Timestamp descending
Frames ==
    { df \in UNION { [1..k -> RowPool] : k \in 0..MaxBatch } : IsDescending(df) }

(***************************************************************************)
(* The Merger: the append branch of upload_to_sheets.                      *)
(***************************************************************************)
create_unique_id(row) ==
    row.Account_ID \o "_" \o row.Object_Name \o "_" \o row.Timestamp
        \o "_" \o row.Action

\* df['_unique_id'] = df.apply(create_unique_id, axis=1)
WithUniqueId(df) ==
    [i \in DOMAIN df |->
        [c \in (DOMAIN df[i]) \cup {"_unique_id"} |->
            IF c = "_unique_id" THEN create_unique_id(df[i]) ELSE df[i][c]]]

\* every fetched row taken as new
NewRowsWithoutDedup(existing, df) == df

\* new_df = df[~df['_unique_id'].isin(existing_ids)]
NewRows(existing, df) ==
    LET existing_ids == { existing[i]["_unique_id"] : i \in DOMAIN existing }
    IN  SelectSeq(df, LAMBDA r : r["_unique_id"] \notin existing_ids)

\* a merge that deduplicates on whole rows instead of on the composite key
MergeFramesByRow(existing, df) ==
    IF existing = <<>>
    THEN {df}
    ELSE LET new_df == SelectSeq(df, LAMBDA r : r \notin Range(existing))
         IN  IF Len(new_df) > 0
             THEN SortValuesDescending(existing \o new_df)
             ELSE {existing}

\* the frames the append branch can leave in df, given what was read
MergeFrames(existing, df) ==
    IF existing = <<>>
    THEN {df}
    ELSE LET e == WithUniqueId(existing)
             d == WithUniqueId(df)
             new_df == NewRows(e, d)
         IN  IF Len(new_df) > 0
             THEN SortValuesDescending(DropColumn(e \o new_df, "_unique_id"))
             ELSE {DropColumn(e, "_unique_id")}

\* read_existing_data_from_sheets: the rows, or an empty frame when the
\* worksheet is missing or the read raises
read_existing_data_from_sheets(read_ok) ==
    IF gspread_client /\ sheetExists /\ read_ok THEN sheet ELSE <<>>

(***************************************************************************)
(* The Window Planner.                                                     *)
(***************************************************************************)
Max(S) == CHOOSE x \in S : \A y \in S : y <= x

\* a planner that takes an unparseable cell for the epoch instead of
\* dropping it
get_last_entry_time_coerced_to_epoch(read_ok) ==
    IF ~gspread_client \/ ~sheetExists \/ ~read_ok THEN None
    ELSE IF sheet = <<>> THEN None
    ELSE LET cells == { sheet[i].Timestamp : i \in DOMAIN sheet } \ {""}
             parsed == { IF ParseTable[c] = None THEN 0 ELSE The(ParseTable[c]) : c \in cells }
         IN  IF parsed = {} THEN None ELSE Some(Max(parsed))

\* the latest parseable Timestamp of the sheet, None when there is none
get_last_entry_time_from_sheet(read_ok) ==
    IF ~gspread_client \/ ~sheetExists \/ ~read_ok THEN None
    ELSE IF sheet = <<>> THEN None
    ELSE LET cells == { sheet[i].Timestamp : i \in DOMAIN sheet } \ {""}
             parsed == { ParseTable[c] : c \in cells } \ {None}
         IN  IF parsed = {} THEN None ELSE Some(Max({ The(t) : t \in parsed }))

\* a division that rounds down
IntDivFloors(x, y) == x \div y

\* int(x / y) of Python: truncation toward zero
IntDiv(x, y) == IF x >= 0 THEN x \div y ELSE -((-x) \div y)

\* adjusted_hours = int(hours_since_last) + 2
adjusted_hours(t_now, last) == IntDiv(t_now - last, TicksPerHour) + Buffer

(***************************************************************************)
(* Object ids and the objects of the Graph API.  An id is the sequence of  *)
(* its characters.                                                         *)
(***************************************************************************)
MinIdLen == 10
MaxIdLen == 25

DigitChars == {"0", "1", "2", "3", "4", "5", "6", "7", "8", "9"}

Whitespace == {" ", "\t", "\n"}

\* str.strip(): s without its leading and trailing whitespace
RECURSIVE LStrip(_)
LStrip(s) == IF s # <<>> /\ Head(s) \in Whitespace THEN LStrip(Tail(s)) ELSE s

RECURSIVE RStrip(_)
RStrip(s) ==
    IF s # <<>> /\ s[Len(s)] \in Whitespace
    THEN RStrip(SubSeq(s, 1, Len(s) - 1))
    ELSE s

Strip(s) == RStrip(LStrip(s))

Uppers == <<"A", "B", "C", "D", "E", "F", "G", "H", "I", "J", "K", "L", "M", "N", "O", "P", "Q", "R", "S", "T", "U", "V", "W", "X", "Y", "Z">>

Lowers == <<"a", "b", "c", "d", "e", "f", "g", "h", "i", "j", "k", "l", "m", "n", "o", "p", "q", "r", "s", "t", "u", "v", "w", "x", "y", "z">>

\* str.lower()
LowerOf(c) ==
    IF \E i \in DOMAIN Uppers : Uppers[i] = c
    THEN Lowers[CHOOSE i \in DOMAIN Uppers : Uppers[i] = c]
    ELSE c

Lower(s) == [i \in DOMAIN s |-> LowerOf(s[i])]

\* a in b, for two strings
IsSubstring(a, b) ==
    \E i \in 0..(Len(b) - Len(a)) : SubSeq(b, i + 1, i + Len(a)) = a

\* str.isdigit(): non-empty and every character a digit
IsDigit(s) == s # <<>> /\ \A i \in DOMAIN s : s[i] \in DigitChars

\* _is_valid_meta_id: a non-empty id that, stripped of surrounding
\* whitespace, has 10 to 25 characters, all of them digits
_is_valid_meta_id(object_id) ==
    /\ object_id # <<>>
    /\ Len(Strip(object_id)) >= MinIdLen
    /\ Len(Strip(object_id)) <= MaxIdLen
    /\ IsDigit(Strip(object_id))

\* a ten-digit id ending in c
Id(c) == [i \in 1..MinIdLen |-> IF i = MinIdLen THEN c ELSE "1"]

AD_1 == Id("1")
AD_2 == Id("2")
ADSET_1 == Id("3")
CAMPAIGN_1 == Id("4")
CAMPAIGN_2 == Id("5")
ADSET_2 == Id("6")

CAMPAIGN_3 == Id("7")

ADSET_3 == Id("8")

AD_3 == Id("9")
SHORT_ID == <<"1", "2", "3">>
PADDED_ID == CAMPAIGN_1 \o <<" ">>

\* what GET /{id} returns for each object when it answers 200; "<null>"
\* stands for an attribute that is present with the JSON value null
GraphObjects ==
    [ad |-> (AD_1 :> [name |-> "ad one", effective_status |-> "ACTIVE",
                      adset_id |-> ADSET_1])
            @@ (AD_2 :> [name |-> "ad two", status |-> "PAUSED",
                         adset_id |-> SHORT_ID])
            @@ (AD_3 :> [name |-> "ad three", effective_status |-> "ACTIVE",
                         adset_id |-> ADSET_3]),
     adset |-> (ADSET_1 :> [name |-> "set one", effective_status |-> "ACTIVE",
                            campaign_id |-> CAMPAIGN_1])
               @@ (ADSET_2 :> [name |-> "set two", effective_status |-> "ACTIVE",
                               campaign_id |-> CAMPAIGN_2])
               @@ (ADSET_3 :> [name |-> "set three", effective_status |-> "<null>",
                               campaign_id |-> CAMPAIGN_3]),
     campaign |-> (CAMPAIGN_1 :> [name |-> "camp one",
                                  effective_status |-> "PAUSED",
                                  daily_budget |-> <<"5", "0", "0", "0">>])
                  @@ (CAMPAIGN_2 :> [name |-> "camp two",
                                     effective_status |-> "ACTIVE",
                                     daily_budget |-> <<"n", "/", "a">>])
                  @@ (CAMPAIGN_3 :> [name |-> "<null>",
                                     effective_status |-> "ACTIVE",
                                     lifetime_budget |-> <<"9", "0", "0", "0">>])]

\* dict.get(key, default)
Get(d, key, default) == IF key \in DOMAIN d THEN d[key] ELSE default

\* the activities a feed can return (after the human-activity filter)
UPDATE_AD == <<"u", "p", "d", "a", "t", "e", "_", "a", "d">>

ALICE == <<"A", "l", "i", "c", "e">>

\* an activity a person made: its type holds an action word
Activity(id, type, name, time) ==
    [object_id |-> id, object_type |-> type, object_name |-> name,
     event_time |-> time, event_type |-> UPDATE_AD,
     translated_event_type |-> <<>>, actor_name |-> ALICE]

\* an event_time as the API renders it
IsoTs(t) == "T" \o FormatTs(t) \o "+0000"

\* two events of one instant, an ad whose parent id is malformed, an event
\* with a malformed id and no event_time, an event whose id ends in a blank,
\* one of an unrecognized type in upper case whose event_time does not parse
ActivityPool ==
    { Activity(AD_1, "adgroup", "ad one", IsoTs(TicksPerHour)),
      Activity(AD_2, "adgroup", "ad two", IsoTs(3 * TicksPerHour)),
      Activity(ADSET_1, "campaign", "set one", IsoTs(2 * TicksPerHour + 1)),
      Activity(CAMPAIGN_1, "campaign_group", "camp one", IsoTs(TicksPerHour)),
      Activity(SHORT_ID, "campaign_group", "old camp", ""),
      Activity(PADDED_ID, "campaign_group", "camp one", IsoTs(TicksPerHour)),
      Activity(CAMPAIGN_1, "ACCOUNT", "acct", "junk") }

(***************************************************************************)
(* The inclusion filter _is_human_activity.  Event types, translated event *)
(* types and actor names are sequences of characters; a JSON null in their *)
(* place is NullStr.                                                       *)
(***************************************************************************)
NullStr == <<"<null>">>

EXCLUDED_EVENT_TYPES ==
    { <<"a", "d", "_", "a", "c", "c", "o", "u", "n", "t", "_", "u", "p", "d", "a", "t", "e", "_", "s", "p", "e", "n", "d", "_", "l", "i", "m", "i", "t">>,
      <<"a", "d", "_", "a", "c", "c", "o", "u", "n", "t", "_", "r", "e", "s", "e", "t", "_", "s", "p", "e", "n", "d", "_", "l", "i", "m", "i", "t">>,
      <<"a", "d", "_", "a", "c", "c", "o", "u", "n", "t", "_", "b", "i", "l", "l", "i", "n", "g", "_", "c", "h", "a", "r", "g", "e">>,
      <<"a", "d", "_", "a", "c", "c", "o", "u", "n", "t", "_", "b", "i", "l", "l", "i", "n", "g", "_", "c", "h", "a", "r", "g", "e", "_", "f", "a", "i", "l", "e", "d">>,
      <<"a", "d", "_", "a", "c", "c", "o", "u", "n", "t", "_", "b", "i", "l", "l", "i", "n", "g", "_", "d", "e", "c", "l", "i", "n", "e">>,
      <<"a", "d", "_", "r", "e", "v", "i", "e", "w", "_", "a", "p", "p", "r", "o", "v", "e", "d">>,
      <<"a", "d", "_", "r", "e", "v", "i", "e", "w", "_", "d", "e", "c", "l", "i", "n", "e", "d">>,
      <<"a", "u", "t", "o", "m", "a", "t", "i", "c", "_", "p", "l", "a", "c", "e", "m", "e", "n", "t", "_", "o", "p", "t", "i", "m", "i", "z", "a", "t", "i", "o", "n">>,
      <<"c", "a", "m", "p", "a", "i", "g", "n", "_", "b", "u", "d", "g", "e", "t", "_", "o", "p", "t", "i", "m", "i", "z", "a", "t", "i", "o", "n">>,
      <<"a", "u", "t", "o", "_", "b", "i", "d", "_", "a", "d", "j", "u", "s", "t", "m", "e", "n", "t">>,
      <<"d", "e", "l", "i", "v", "e", "r", "y", "_", "i", "n", "s", "i", "g", "h", "t", "s", "_", "n", "o", "t", "i", "f", "i", "c", "a", "t", "i", "o", "n">> }

INCLUDED_ACTIONS ==
    { <<"c", "r", "e", "a", "t", "e">>,
      <<"u", "p", "d", "a", "t", "e">>,
      <<"d", "e", "l", "e", "t", "e">>,
      <<"p", "a", "u", "s", "e">>,
      <<"r", "e", "s", "u", "m", "e">>,
      <<"a", "r", "c", "h", "i", "v", "e">>,
      <<"e", "d", "i", "t">>,
      <<"c", "h", "a", "n", "g", "e">>,
      <<"m", "o", "d", "i", "f", "y">>,
      <<"a", "c", "t", "i", "v", "a", "t", "e">>,
      <<"d", "e", "a", "c", "t", "i", "v", "a", "t", "e">> }

AutomatedActors ==
    { <<"m", "e", "t", "a">>,
      <<"f", "a", "c", "e", "b", "o", "o", "k">>,
      <<"s", "y", "s", "t", "e", "m">>,
      <<"a", "u", "t", "o", "m", "a", "t", "e", "d">> }

\* None.lower() raises AttributeError
FilterRaises(activity) ==
    activity.event_type = NullStr \/ activity.translated_event_type = NullStr

\* an event is left out when its type is excluded; else it is kept when its
\* type or translated type contains an action word; else it is kept when it
\* has an actor that is not an automated one
_is_human_activity(activity) ==
    LET event_type == Lower(activity.event_type)
        translated_event == Lower(activity.translated_event_type)
        actor == activity.actor_name
    IN  IF event_type \in EXCLUDED_EVENT_TYPES THEN FALSE
        ELSE IF \E action \in INCLUDED_ACTIONS :
                    IsSubstring(action, event_type) \/ IsSubstring(action, translated_event)
        THEN TRUE
        ELSE actor # <<>> /\ Lower(actor) \notin AutomatedActors

(***************************************************************************)
(* _make_api_request: the status that ends one request (after its retries).*)
(***************************************************************************)
Statuses == {"200", "400", "500"}

\* get_campaign_details / get_adset_details / get_ad_details: an invalid id
\* is skipped without a request; otherwise one request is issued and its
\* JSON body is returned on a 200 answer, None otherwise
get_details(tier, object_id, status) ==
    IF ~_is_valid_meta_id(object_id)
    THEN [tier |-> tier, id |-> object_id, requested |-> FALSE, data |-> None]
    ELSE [tier |-> tier, id |-> object_id, requested |-> TRUE,
          data |-> IF status = "200" /\ object_id \in DOMAIN GraphObjects[tier]
                   THEN Some(GraphObjects[tier][object_id])
                   ELSE None]

get_campaign_details(campaign_id, status) == get_details("campaign", campaign_id, status)

get_adset_details(adset_id, status) == get_details("adset", adset_id, status)

get_ad_details(ad_id, status) == get_details("ad", ad_id, status)

(***************************************************************************)
(* _build_complete_hierarchy.  Of the seventeen columns the model keeps    *)
(* the level, and per tier the name and status, and the campaign budget.   *)
(***************************************************************************)
\* columns that start out blank
DefaultHierarchyBlank ==
    [Campaign_Name |-> "", Campaign_Status |-> "",
     Campaign_Budget_Type |-> "", Campaign_Budget |-> "",
     AdSet_Name |-> "", AdSet_Status |-> "",
     Ad_Name |-> "", Ad_Status |-> "",
     Hierarchy_Level |-> "UNKNOWN"]

\* the hierarchy dict before anything is resolved
DefaultHierarchy ==
    [Campaign_Name |-> "N/A", Campaign_Status |-> "N/A",
     Campaign_Budget_Type |-> "N/A", Campaign_Budget |-> "N/A",
     AdSet_Name |-> "N/A", AdSet_Status |-> "N/A",
     Ad_Name |-> "N/A", Ad_Status |-> "N/A",
     Hierarchy_Level |-> "UNKNOWN"]

\* int(c) of a digit character
DigitValue(c) == CHOOSE n \in 0..9 : ToString(n) = c

RECURSIVE ToInt(_)
ToInt(s) ==
    IF s = <<>> THEN 0
    ELSE 10 * ToInt(SubSeq(s, 1, Len(s) - 1)) + DigitValue(s[Len(s)])

\* float(budget): the number of cents a budget string denotes, or None when
\* float raises ValueError
ParseFloat(budget) == IF IsDigit(budget) THEN Some(ToInt(budget)) ELSE None

\* f"${float(budget)/100:.2f}" for a budget in cents
FormatBudget(cents) == "$" \o ToString(cents \div 100) \o "." \o Pad2(cents % 100)

\* the budget the budget columns are filled from: the daily budget when the
\* object carries one, else the lifetime budget (a budget is a non-empty
\* string, so it is truthy whenever it is present)
BudgetOf(campaign_data) ==
    IF "daily_budget" \in DOMAIN campaign_data
    THEN Some(<<"Daily", campaign_data.daily_budget>>)
    ELSE IF "lifetime_budget" \in DOMAIN campaign_data
    THEN Some(<<"Lifetime", campaign_data.lifetime_budget>>)
    ELSE None

\* float(budget) raises on the budget of the object
BudgetRaises(campaign_data) ==
    /\ BudgetOf(campaign_data) # None
    /\ ParseFloat(The(BudgetOf(campaign_data))[2]) = None

\* the budget columns; the type is written before the amount is converted,
\* so it stays written when the conversion raises
WithBudget(h, campaign_data) ==
    IF BudgetOf(campaign_data) = None THEN h
    ELSE LET b == The(BudgetOf(campaign_data))
         IN  [h EXCEPT !.Campaign_Budget_Type = b[1],
                       !.Campaign_Budget = IF ParseFloat(b[2]) # None
                                           THEN FormatBudget(The(ParseFloat(b[2])))
                                           ELSE @]

\* a parent campaign whose columns are not filled in
WithParentCampaignDropped(h, campaign_data) == h

\* the campaign columns of a parent campaign
WithParentCampaign(h, campaign_data) ==
    WithBudget([h EXCEPT !.Campaign_Name = Get(campaign_data, "name", "N/A"),
                         !.Campaign_Status = Get(campaign_data, "effective_status", "N/A")],
               campaign_data)

\* the ad set columns of a parent ad set
WithParentAdSet(h, adset_data) ==
    [h EXCEPT !.AdSet_Name = Get(adset_data, "name", "N/A"),
              !.AdSet_Status = Get(adset_data, "effective_status", "N/A")]

\* from an ad set's data on: one campaign is fetched whatever the ad set names
ResolveCampaignOfAny(h, adset_data, att) ==
    LET c == get_campaign_details(CAMPAIGN_1, att)
    IN  [hierarchy |-> IF c.data # None THEN WithParentCampaign(h, The(c.data)) ELSE h,
         calls |-> <<c>>,
         raised |-> FALSE]

\* from an ad set's data on: the parent campaign is fetched when the ad set
\* names one.  att is the final status of the campaign request; raised tells
\* whether the budget conversion raised.
ResolveCampaignOf(h, adset_data, att) ==
    IF "campaign_id" \in DOMAIN adset_data
    THEN LET c == get_campaign_details(adset_data.campaign_id, att)
         IN  [hierarchy |-> IF c.data # None
                            THEN WithParentCampaign(h, The(c.data))
                            ELSE h,
              calls |-> <<c>>,
              raised |-> c.data # None /\ BudgetRaises(The(c.data))]
    ELSE [hierarchy |-> h, calls |-> <<>>, raised |-> FALSE]

\* the model's token for a JSON null
JsonNull == "<null>"

\* a type tag that is kept as the feed gave it
object_type_kept(tag) == tag

\* activity.get('object_type', '').lower(), on the type tags of the model
object_type_lower(tag) ==
    IF tag = "ACCOUNT" THEN "account"
    ELSE IF tag = "CAMPAIGN" THEN "campaign"
    ELSE tag

\* what became of an exception: none was raised, one was caught by the
\* try of _build_complete_hierarchy, one was raised before the try
Outcome(raised) == IF raised THEN "caught" ELSE "none"

\* the hierarchy of one activity and the detail calls made for it, given the
\* final statuses att[1], att[2], att[3] of its first, second, third request.
\* built tells whether hierarchy_built was counted, error what became of an
\* exception.  None.lower() raises before the try; float() raises inside it
\* and leaves the columns written so far.
_build_complete_hierarchy(activity, att) ==
    IF activity.object_type = JsonNull
    THEN [hierarchy |-> DefaultHierarchy, calls |-> <<>>, built |-> FALSE,
          error |-> "uncaught"]
    ELSE
    LET object_id == activity.object_id
        object_type == object_type_lower(activity.object_type)
        object_name == activity.object_name
        h0 == DefaultHierarchy
    IN  IF object_type = "campaign_group"
        THEN LET h == [h0 EXCEPT !.Hierarchy_Level = "CAMPAIGN"]
                 c == get_campaign_details(object_id, att[1])
             IN  IF c.data # None
                 THEN [hierarchy |->
                          WithBudget(
                            [h EXCEPT !.Campaign_Name = Get(The(c.data), "name", object_name),
                                      !.Campaign_Status =
                                          Get(The(c.data), "effective_status",
                                              Get(The(c.data), "status", "N/A"))],
                            The(c.data)),
                       calls |-> <<c>>,
                       built |-> ~BudgetRaises(The(c.data)),
                       error |-> Outcome(BudgetRaises(The(c.data)))]
                 ELSE [hierarchy |-> [h EXCEPT !.Campaign_Name = object_name],
                       calls |-> <<c>>, built |-> FALSE, error |-> "none"]
        ELSE IF object_type = "campaign"
        THEN LET h == [h0 EXCEPT !.Hierarchy_Level = "ADSET"]
                 a == get_adset_details(object_id, att[1])
             IN  IF a.data # None
                 THEN LET h1 == [h EXCEPT !.AdSet_Name = Get(The(a.data), "name", object_name),
                                          !.AdSet_Status =
                                              Get(The(a.data), "effective_status",
                                                  Get(The(a.data), "status", "N/A"))]
                          up == ResolveCampaignOf(h1, The(a.data), att[2])
                      IN  [hierarchy |-> up.hierarchy, calls |-> <<a>> \o up.calls,
                           built |-> ~up.raised, error |-> Outcome(up.raised)]
                 ELSE [hierarchy |-> [h EXCEPT !.AdSet_Name = object_name],
                       calls |-> <<a>>, built |-> FALSE, error |-> "none"]
        ELSE IF object_type = "adgroup"
        THEN LET h == [h0 EXCEPT !.Hierarchy_Level = "AD"]
                 d == get_ad_details(object_id, att[1])
             IN  IF d.data # None
                 THEN LET h1 == [h EXCEPT !.Ad_Name = Get(The(d.data), "name", object_name),
                                          !.Ad_Status =
                                              Get(The(d.data), "effective_status",
                                                  Get(The(d.data), "status", "N/A"))]
                      IN  IF "adset_id" \in DOMAIN The(d.data)
                          THEN LET a == get_adset_details(The(d.data).adset_id, att[2])
                               IN  IF a.data # None
                                   THEN LET up == ResolveCampaignOf(
                                                     WithParentAdSet(h1, The(a.data)),
                                                     The(a.data), att[3])
                                        IN  [hierarchy |-> up.hierarchy,
                                             calls |-> <<d, a>> \o up.calls,
                                             built |-> ~up.raised,
                                             error |-> Outcome(up.raised)]
                                   ELSE [hierarchy |-> h1, calls |-> <<d, a>>,
                                         built |-> TRUE, error |-> "none"]
                          ELSE [hierarchy |-> h1, calls |-> <<d>>, built |-> TRUE,
                                error |-> "none"]
                 ELSE [hierarchy |-> [h EXCEPT !.Ad_Name = object_name],
                       calls |-> <<d>>, built |-> FALSE, error |-> "none"]
        ELSE [hierarchy |-> [h0 EXCEPT !.Hierarchy_Level = "OTHER:" \o object_type],
              calls |-> <<>>, built |-> FALSE, error |-> "none"]

(***************************************************************************)
(* fetch_meta_activities: one _process_account task per account on the     *)
(* worker pool, gathered by the main thread as they complete.              *)
(***************************************************************************)
Tiers == {"campaign", "adset", "ad"}

FetchKeys ==
    { <<t, id>> : t \in Tiers,
                  id \in {AD_1, AD_2, AD_3, ADSET_1, ADSET_2, ADSET_3, CAMPAIGN_1, CAMPAIGN_2,
                          CAMPAIGN_3, PADDED_ID} }

RECURSIVE SumLen(_, _)
SumLen(f, S) ==
    IF S = {} THEN 0
    ELSE LET a == CHOOSE x \in S : TRUE
         IN  Len(f[a]) + SumLen(f, S \ {a})

\* the number of activities in the feeds f of all accounts
TotalLen(f) == SumLen(f, DOMAIN f)

Feeds ==
    UNION { [1..n -> ActivityPool] : n \in 0..MaxEvents }

\* events whose resolution raises: a campaign and an ad set under a campaign
\* whose budget is not a number, an event whose object_type is null and one
\* whose event_type is null; and two events that resolve without trouble
FaultPool ==
    { Activity(CAMPAIGN_2, "campaign_group", "camp two", IsoTs(2 * TicksPerHour)),
      Activity(ADSET_2, "campaign", "set two", IsoTs(3 * TicksPerHour)),
      Activity(AD_1, JsonNull, "ad one", IsoTs(TicksPerHour)),
      [Activity(AD_2, "adgroup", "ad two", IsoTs(TicksPerHour)) EXCEPT !.event_type = NullStr],
      Activity(ADSET_1, "campaign", "set one", IsoTs(2 * TicksPerHour + 1)),
      Activity(CAMPAIGN_1, "ACCOUNT", "acct", "junk") }

FaultFeeds ==
    UNION { [1..n -> FaultPool] : n \in 0..MaxEvents }

\* events of the collection stage: two that are kept, one left out by its
\* type, one left out for its automated actor
RawPool ==
    { Activity(CAMPAIGN_1, "ACCOUNT", "acct", IsoTs(TicksPerHour)),
      Activity(CAMPAIGN_2, "ACCOUNT", "acct", IsoTs(4 * TicksPerHour)),
      [Activity(CAMPAIGN_1, "ACCOUNT", "bill", IsoTs(2 * TicksPerHour))
          EXCEPT !.event_type = <<"a", "d", "_", "a", "c", "c", "o", "u", "n", "t", "_", "b", "i", "l", "l", "i", "n", "g", "_", "c", "h", "a", "r", "g", "e">>],
      [Activity(CAMPAIGN_1, "ACCOUNT", "sync", IsoTs(3 * TicksPerHour))
          EXCEPT !.event_type = <<"s", "y", "n", "c">>, !.actor_name = <<"M", "e", "t", "a">>] }

\* events on objects that carry a null attribute or a lifetime budget, and
\* two events on objects that carry neither
NullPool ==
    { Activity(CAMPAIGN_3, "campaign_group", "camp three", IsoTs(2 * TicksPerHour)),
      Activity(ADSET_3, "campaign", "set three", IsoTs(3 * TicksPerHour)),
      Activity(AD_3, "adgroup", "ad three", IsoTs(4 * TicksPerHour)),
      Activity(ADSET_1, "campaign", "set one", IsoTs(2 * TicksPerHour + 1)),
      Activity(CAMPAIGN_1, "campaign_group", "camp one", IsoTs(TicksPerHour)) }

NullFeeds ==
    UNION { [1..n -> NullPool] : n \in 0..MaxEvents }

AllActivities == ActivityPool \cup FaultPool \cup RawPool \cup NullPool

\* a page response of the activity feed: a JSON body with the page's events
\* and, in paging.next, the cursor of the next page if there is one; a body
\* without 'data'; an empty body; no body (the request failed)
OkPage(events, next) == [kind |-> "ok", data |-> events, next |-> next]

MalformedPage == [kind |-> "malformed", data |-> <<>>, next |-> None]

EmptyPage == [kind |-> "empty", data |-> <<>>, next |-> None]

FailedPage == [kind |-> "failed", data |-> <<>>, next |-> None]

\* a feed of one page
OnePage(events) == <<OkPage(events, None)>>

\* every activity resolved as if it were a campaign event
HierarchyOfAsCampaign ==
    [activity \in AllActivities, att \in [1..3 -> Statuses] |->
        _build_complete_hierarchy([activity EXCEPT !.object_type = "campaign_group"], att)]

\* _build_complete_hierarchy, tabulated over the activities and statuses
HierarchyOf ==
    [activity \in AllActivities, att \in [1..3 -> Statuses] |->
        _build_complete_hierarchy(activity, att)]

NoStats ==
    [api_calls |-> [campaign |-> 0, adset |-> 0, ad |-> 0],
     hierarchy_built |-> [campaign_group |-> 0, campaign |-> 0, adgroup |-> 0],
     skipped_objects |-> <<>>,
     hierarchy_errors |-> <<>>]

\* the detail calls among calls that issued a request / that were skipped
Requested(calls) == SelectSeq(calls, LAMBDA c : c.requested)

Skipped(calls) == SelectSeq(calls, LAMBDA c : ~c.requested)

CountCalls(calls, tier) == Len(SelectSeq(Requested(calls), LAMBDA c : c.tier = tier))

\* _is_human_activity and its raising, tabulated over the activities
IsHuman == [activity \in AllActivities |-> _is_human_activity(activity)]

Raises == [activity \in AllActivities |-> FilterRaises(activity)]

\* the position of a task once get_account_activities has returned
AfterCollection(human_activities) ==
    IF human_activities = <<>> THEN "returned" ELSE "building"

\* a filter that keeps every event of the page
HumanActivitiesUnfiltered(page) == page.data

\* [act for act in raw_activities if self._is_human_activity(act)]
HumanActivities(page) == SelectSeq(page.data, LAMBDA act : IsHuman[act])

\* _process_account, in get_account_activities: one pass of the page loop.
\* The page at the cursor is requested.  Without a body, or without 'data'
\* in it, the loop ends.  Else the page's events are filtered (the filter
\* raises on a null event type, and the exception ends the task) and added,
\* and the loop goes on with the page's next cursor if it has one.
GetAccountActivities(acc) ==
    /\ worker[acc] = "start"
    /\ LET page == feed[acc][cursor[acc]]
       IN  IF page.kind # "ok"
           THEN /\ worker' = [worker EXCEPT ![acc] = AfterCollection(activities[acc])]
                /\ UNCHANGED <<activities, cursor>>
           ELSE IF \E i \in DOMAIN page.data : Raises[page.data[i]]
           THEN /\ worker' = [worker EXCEPT ![acc] = "raised"]
                /\ activities' = [activities EXCEPT ![acc] = <<>>]
                /\ UNCHANGED cursor
           ELSE /\ activities' = [activities EXCEPT ![acc] = @ \o HumanActivities(page)]
                /\ IF page.next # None
                   THEN /\ cursor' = [cursor EXCEPT ![acc] = The(page.next)]
                        /\ UNCHANGED worker
                   ELSE /\ worker' = [worker EXCEPT ![acc] =
                                         AfterCollection(activities[acc] \o HumanActivities(page))]
                        /\ UNCHANGED cursor
    /\ UNCHANGED <<feed, results, all_activities, debug_stats, fetches, requests,
                   returned_df>>
    /\ UNCHANGED <<runVars, helperVars>>

\* _process_account: event_time without its offset, rendered by strftime;
\* '' when the event has none, the raw text when strptime rejects it
timestamp_parsed(event_time) ==
    IF event_time = "" THEN ""
    ELSE IF \E t \in Ticks : IsoTs(t) = event_time
    THEN FormatTs(CHOOSE t \in Ticks : IsoTs(t) = event_time)
    ELSE event_time

TimestampOf == [activity \in AllActivities |-> timestamp_parsed(activity.event_time)]

\* _process_account: the next activity is resolved and its row appended.  An
\* exception raised before the try of _build_complete_hierarchy ends the
\* task, and the rows it has built are lost with it.
BuildHierarchy(acc) ==
    /\ worker[acc] = "building"
    /\ \E b \in { HierarchyOf[Head(activities[acc]), att] : att \in [1..3 -> Statuses] } :
          LET activity == Head(activities[acc])
              row == [c \in (DOMAIN b.hierarchy)
                              \cup {"Account_ID", "Timestamp", "Object_ID", "Object_Type_Raw"} |->
                         IF c = "Account_ID" THEN acc
                         ELSE IF c = "Timestamp" THEN TimestampOf[activity]
                         ELSE IF c = "Object_ID" THEN activity.object_id
                         ELSE IF c = "Object_Type_Raw" THEN activity.object_type
                         ELSE b.hierarchy[c]]
          IN  IF b.error = "uncaught"
              THEN /\ results' = [results EXCEPT ![acc] = <<>>]
                   /\ activities' = [activities EXCEPT ![acc] = <<>>]
                   /\ worker' = [worker EXCEPT ![acc] = "raised"]
                   /\ UNCHANGED <<requests, fetches, debug_stats>>
              ELSE
              /\ results' = [results EXCEPT ![acc] = Append(@, row)]
              /\ requests' = requests
                                \o [i \in DOMAIN Requested(b.calls) |->
                                      <<Requested(b.calls)[i].tier, Requested(b.calls)[i].id,
                                        Requested(b.calls)[i].data # None>>]
              /\ fetches' = [k \in FetchKeys |->
                               fetches[k] + Len(SelectSeq(Requested(b.calls),
                                                LAMBDA c : <<c.tier, c.id>> = k))]
              /\ debug_stats' =
                    [api_calls |-> [t \in Tiers |->
                                      debug_stats.api_calls[t] + CountCalls(b.calls, t)],
                     hierarchy_built |->
                        [ty \in DOMAIN debug_stats.hierarchy_built |->
                            debug_stats.hierarchy_built[ty]
                              + (IF b.built /\ ty = object_type_lower(activity.object_type)
                                 THEN 1 ELSE 0)],
                     skipped_objects |->
                        debug_stats.skipped_objects
                          \o [i \in DOMAIN Skipped(b.calls) |->
                                <<Skipped(b.calls)[i].tier, Skipped(b.calls)[i].id>>],
                     hierarchy_errors |->
                        IF b.error = "caught"
                        THEN Append(debug_stats.hierarchy_errors,
                                    <<object_type_lower(activity.object_type),
                                      activity.object_id>>)
                        ELSE debug_stats.hierarchy_errors]
              /\ activities' = [activities EXCEPT ![acc] = Tail(@)]
              /\ worker' = [worker EXCEPT ![acc] = IF Tail(activities[acc]) = <<>>
                                                    THEN "returned" ELSE "building"]
    /\ UNCHANGED <<feed, cursor, all_activities, returned_df>>
    /\ UNCHANGED <<runVars, helperVars>>

\* a list that is replaced by the rows it is given
ExtendReplaces(list, rows) == rows

\* list.extend(rows)
Extend(list, rows) == list \o rows

\* the main thread takes a completed task's outcome: its rows are added to
\* all_activities; if the task raised, future.result() raises, the exception
\* is caught and printed, and nothing is added
FutureResult(acc) ==
    /\ worker[acc] \in {"returned", "raised"}
    /\ all_activities' = IF worker[acc] = "returned"
                         THEN Extend(all_activities, results[acc])
                         ELSE all_activities
    /\ worker' = [worker EXCEPT ![acc] = "collected"]
    /\ UNCHANGED <<feed, cursor, activities, results, debug_stats, fetches, requests,
                   returned_df>>
    /\ UNCHANGED <<runVars, helperVars>>

\* a loop that is over with the first task completed
FirstCollected == \E a \in Accounts : worker[a] = "collected"

\* the as_completed loop is over: every task's rows were gathered
AllCollected == \A a \in Accounts : worker[a] = "collected"

\* fetch_meta_activities returns: an empty frame when nothing was gathered,
\* else the gathered rows sorted by Timestamp, latest first
ReturnFrame ==
    /\ AllCollected
    /\ returned_df = None
    /\ IF all_activities = <<>>
       THEN returned_df' = Some(<<>>)
       ELSE \E q \in SortValuesDescending(all_activities) : returned_df' = Some(q)
    /\ UNCHANGED <<feed, cursor, worker, activities, results, all_activities,
                   debug_stats, fetches, requests>>
    /\ UNCHANGED <<runVars, helperVars>>

(***************************************************************************)
(* run(): one action per stage of the pipeline.                            *)
(***************************************************************************)
HoursArgs == {1, DefaultHours}

\* the outcomes of the sheet operations of one call: each may raise
SheetOutcomes == [open : BOOLEAN, read : BOOLEAN, clear : BOOLEAN,
                  add : BOOLEAN, write : BOOLEAN]

RunLocals == <<append_mode, hours_arg, hours, last_entry_time, final_df,
               existing_df, uploaded_df, before, invoked, plan_now, since>>

ResetLocals ==
    /\ append_mode' = FALSE
    /\ hours_arg' = DefaultHours
    /\ hours' = DefaultHours
    /\ last_entry_time' = None
    /\ final_df' = <<>>
    /\ existing_df' = None
    /\ uploaded_df' = None
    /\ before' = <<>>
    /\ invoked' = {}
    /\ plan_now' = None
    /\ since' = [a \in Accounts |-> None]

\* a run that plans its window whatever the mode flag
RunStartAlwaysPlans(mode, h) ==
    /\ pc = "idle"
    /\ append_mode' = mode
    /\ hours_arg' = h
    /\ hours' = h
    /\ before' = sheet
    /\ UNCHANGED <<last_entry_time, final_df, existing_df, uploaded_df,
                   invoked, plan_now, since>>
    /\ pc' = "plan"
    /\ UNCHANGED <<gspread_client, sheetExists, sheet, now>>
    /\ UNCHANGED enrichVars

\* run(hours, append_mode) is entered
RunStart(mode, h) ==
    /\ pc = "idle"
    /\ append_mode' = mode
    /\ hours_arg' = h
    /\ hours' = h
    /\ before' = sheet
    /\ UNCHANGED <<last_entry_time, final_df, existing_df, uploaded_df,
                   invoked, plan_now, since>>
    /\ pc' = IF mode THEN "plan" ELSE "fetch"
    /\ UNCHANGED <<gspread_client, sheetExists, sheet, now>>
    /\ UNCHANGED enrichVars

\* the smart-fetch calculation of an append-mode run
PlanWindow ==
    /\ pc = "plan"
    /\ \E read_ok \in BOOLEAN :
          LET last == get_last_entry_time_from_sheet(read_ok)
          IN  /\ last_entry_time' = last
              /\ invoked' = invoked \cup {"planner"}
                     \cup (IF read_ok THEN {} ELSE {"planner_read_raised"})
              /\ IF last # None
                 THEN /\ plan_now' = Some(now)
                      /\ hours' = adjusted_hours(now, The(last))
                 ELSE UNCHANGED <<plan_now, hours>>
    /\ pc' = "fetch"
    /\ UNCHANGED <<gspread_client, sheetExists, sheet, now, append_mode,
                   hours_arg, final_df, existing_df, uploaded_df, before, since>>
    /\ UNCHANGED enrichVars

\* time passes while the accounts are being processed
Tick ==
    /\ pc = "fetch"
    /\ plan_now # None
    /\ now < The(plan_now) + MaxDelay
    /\ now' = now + 1
    /\ UNCHANGED <<gspread_client, sheetExists, sheet, pc, RunLocals>>
    /\ UNCHANGED enrichVars

\* get_account_activities(acc, hours) computes its 'since' bound
RequestActivities(acc) ==
    /\ pc = "fetch"
    /\ since[acc] = None
    /\ since' = [since EXCEPT ![acc] = Some(now - hours * TicksPerHour)]
    /\ UNCHANGED <<gspread_client, sheetExists, sheet, now, pc, append_mode,
                   hours_arg, hours, last_entry_time, final_df, existing_df,
                   uploaded_df, before, invoked, plan_now>>
    /\ UNCHANGED enrichVars

\* fetch_meta_activities and map_airtable_to_activities return the run's
\* rows; run() returns at once when there are none
Collect ==
    /\ pc = "fetch"
    /\ \A a \in Accounts : since[a] # None
    /\ \E df \in Frames :
          /\ Len(sheet) + Len(df) <= MaxSheet
          /\ final_df' = df
          /\ pc' = IF df = <<>> THEN "done" ELSE "upload"
    /\ UNCHANGED <<gspread_client, sheetExists, sheet, now, append_mode,
                   hours_arg, hours, last_entry_time, existing_df, uploaded_df,
                   before, invoked, plan_now, since>>
    /\ UNCHANGED enrichVars

\* ws.clear() or add_worksheet succeeded: set_with_dataframe(ws, df)
WriteFrame(df, o, called) ==
    /\ sheetExists' = TRUE
    /\ sheet' = IF o.write THEN df ELSE <<>>
    /\ uploaded_df' = Some(df)
    /\ invoked' = invoked \cup called \cup {"clear", "write"}

\* upload_to_sheets(df, append_mode=mode) under the outcomes o
upload_to_sheets(df, mode, o) ==
    IF ~gspread_client \/ df = <<>> \/ ~o.open
    THEN UNCHANGED <<sheetExists, sheet, existing_df, uploaded_df, invoked>>
    ELSE LET existing == IF mode THEN read_existing_data_from_sheets(o.read)
                                 ELSE <<>>
             called == IF mode THEN {"read_existing"} ELSE {}
         IN  /\ existing_df' = IF mode THEN Some(existing) ELSE None
             /\ \E out \in (IF mode THEN MergeFrames(existing, df) ELSE {df}) :
                   IF (sheetExists /\ o.clear) \/ (~sheetExists /\ o.add)
                   THEN WriteFrame(out, o, called)
                   ELSE /\ invoked' = invoked \cup called
                        /\ UNCHANGED <<sheetExists, sheet, uploaded_df>>

\* run() hands the rows to upload_to_sheets when a client exists
Upload ==
    /\ pc = "upload"
    /\ IF gspread_client
       THEN \E o \in SheetOutcomes : upload_to_sheets(final_df, append_mode, o)
       ELSE UNCHANGED <<sheetExists, sheet, existing_df, uploaded_df, invoked>>
    /\ pc' = "done"
    /\ UNCHANGED <<gspread_client, now, append_mode, hours_arg, hours,
                   last_entry_time, final_df, before, plan_now, since>>
    /\ UNCHANGED enrichVars

\* run() returns
Finish ==
    /\ pc = "done"
    /\ pc' = "idle"
    /\ ResetLocals
    /\ UNCHANGED <<gspread_client, sheetExists, sheet, now>>
    /\ UNCHANGED enrichVars

\* no run is in progress
RunIdle ==
    /\ pc = "idle"
    /\ append_mode = FALSE
    /\ hours_arg = DefaultHours
    /\ hours = DefaultHours
    /\ last_entry_time = None
    /\ final_df = <<>>
    /\ existing_df = None
    /\ uploaded_df = None
    /\ before = <<>>
    /\ invoked = {}
    /\ plan_now = None
    /\ since = [a \in Accounts |-> None]

\* no helper is being called on its own
HelperIdle ==
    /\ arg = <<>>
    /\ ret = None

\* no account task has been submitted
EnrichIdle ==
    /\ feed = [a \in Accounts |-> <<>>]
    /\ cursor = [a \in Accounts |-> 1]
    /\ worker = [a \in Accounts |-> "idle"]
    /\ activities = [a \in Accounts |-> <<>>]
    /\ results = [a \in Accounts |-> <<>>]
    /\ all_activities = <<>>
    /\ debug_stats = NoStats
    /\ fetches = [k \in FetchKeys |-> 0]
    /\ requests = <<>>
    /\ returned_df = None

Init ==
    /\ gspread_client \in BOOLEAN
    /\ sheetExists \in BOOLEAN
    /\ sheet = <<>>
    /\ now = MaxNow
    /\ RunIdle
    /\ EnrichIdle
    /\ HelperIdle

Next ==
    \/ \E mode \in BOOLEAN, h \in HoursArgs : RunStart(mode, h)
    \/ PlanWindow
    \/ \E a \in Accounts : RequestActivities(a)
    \/ Collect
    \/ Upload
    \/ Finish

Spec == Init /\ [][Next]_vars

(***************************************************************************)
(* The window planner on its own: one persisted row of any time, any       *)
(* clock, and time passing between the calculation and the requests.       *)
(***************************************************************************)
InitWindow ==
    /\ gspread_client = TRUE
    /\ sheetExists = TRUE
    /\ sheet \in { <<Row("act_1", "A", FormatTs(t), "update", "c1")>> : t \in Ticks }
    /\ now \in Ticks
    /\ RunIdle
    /\ EnrichIdle
    /\ HelperIdle

NextWindow ==
    \/ \E mode \in BOOLEAN, h \in HoursArgs : RunStart(mode, h)
    \/ PlanWindow
    \/ Tick
    \/ \E a \in Accounts : RequestActivities(a)

SpecWindow == InitWindow /\ [][NextWindow]_vars

(***************************************************************************)
(* Properties of the Merger and of the run modes (checked under Spec).     *)
(***************************************************************************)
Keys(df) == { create_unique_id(df[i]) : i \in DOMAIN df }

\* the rows of df whose composite key is not a key of existing, in df's order
Survivors(existing, df) ==
    SelectSeq(df, LAMBDA r : create_unique_id(r) \notin Keys(existing))

\* an append-mode run has handed a frame to the bulk write
MergedAndWritten == pc = "done" /\ append_mode /\ uploaded_df # None

\* C1: after an append-mode run, every row the sheet held before the run is
\* still held (as many times, with the same cell values), whatever the
\* outcomes of the read, the clear and the bulk write.
C1_SinkOnlyGrows ==
    (pc = "done" /\ append_mode) =>
        \A r \in Range(before) : Count(sheet, r) >= Count(before, r)

\* C2: merging the batch a second time into the frame the first merge
\* produced adds no row: the second result is as long as the first.
C2_MergeIdempotent ==
    MergedAndWritten =>
        \A second \in MergeFrames(The(uploaded_df), final_df) :
            Len(second) = Len(The(uploaded_df))

C2_Witness ==
    /\ MergedAndWritten
    /\ The(existing_df) # <<>>
    /\ Len(The(uploaded_df)) > Len(The(existing_df))
    /\ \E i \in DOMAIN final_df : create_unique_id(final_df[i]) \in Keys(The(existing_df))
    /\ sheet = The(uploaded_df)

\* C3: a row of the new batch is in the merged frame iff its composite key is
\* not the key of a persisted row; a persisted row is kept as it was and a
\* new row with a persisted key is dropped.
C3_AddedIffKeyIsNew ==
    MergedAndWritten =>
        LET E == The(existing_df)
            O == The(uploaded_df)
        IN  \A r \in Range(E) \cup Range(final_df) \cup Range(O) :
                Count(O, r) = Count(E, r)
                    + (IF create_unique_id(r) \in Keys(E) THEN 0 ELSE Count(final_df, r))

C3_Witness ==
    /\ MergedAndWritten
    /\ \E i \in DOMAIN final_df, j \in DOMAIN The(existing_df) :
          /\ create_unique_id(final_df[i]) = create_unique_id(The(existing_df)[j])
          /\ final_df[i] # The(existing_df)[j]
          /\ final_df[i] \notin Range(The(uploaded_df))
    /\ \E i \in DOMAIN final_df :
          /\ create_unique_id(final_df[i]) \notin Keys(The(existing_df))
          /\ final_df[i] \in Range(The(uploaded_df))

\* C4: when no row of the batch survives deduplication the merged frame is
\* the persisted frame itself: same rows, same order, same columns (no
\* '_unique_id' column).
C4_NoSurvivorKeepsPersisted ==
    (MergedAndWritten /\ Survivors(The(existing_df), final_df) = <<>>) =>
        The(uploaded_df) = The(existing_df)

C4_Witness ==
    /\ MergedAndWritten
    /\ Survivors(The(existing_df), final_df) = <<>>
    /\ Len(The(existing_df)) >= 2
    /\ \E i \in DOMAIN final_df : final_df[i] \notin Range(The(existing_df))
    /\ sheet = The(existing_df)

\* C5: when at least one row survives, the merged frame holds exactly the
\* persisted rows and the surviving rows, ordered by Timestamp descending.
C5_SurvivorsUnionSorted ==
    (MergedAndWritten /\ Survivors(The(existing_df), final_df) # <<>>) =>
        /\ IsPermutation(The(uploaded_df),
                         The(existing_df) \o Survivors(The(existing_df), final_df))
        /\ IsDescending(The(uploaded_df))

C5_Witness ==
    /\ MergedAndWritten
    /\ The(existing_df) # <<>>
    /\ Survivors(The(existing_df), final_df) # <<>>
    /\ ~IsDescending(The(existing_df) \o Survivors(The(existing_df), final_df))
    /\ Len(Survivors(The(existing_df), final_df)) < Len(final_df)

\* the sheet, as the planner finds it, yields no prior timestamp: no client,
\* no worksheet, no rows, a failed read, or no cell that parses
NoPriorTimestamp ==
    \/ ~gspread_client
    \/ ~sheetExists
    \/ sheet = <<>>
    \/ "planner_read_raised" \in invoked
    \/ \A i \in DOMAIN sheet : ParseTs(sheet[i].Timestamp) = None

\* C8: in append mode, when the sheet yields no prior timestamp the planner
\* completes and the fetch window is the caller's hours value.
C8_FirstRunUsesDefault ==
    (pc = "fetch" /\ append_mode /\ NoPriorTimestamp) =>
        /\ "planner" \in invoked
        /\ last_entry_time = None
        /\ hours = hours_arg

C8_Witness ==
    /\ pc = "fetch" /\ append_mode /\ gspread_client /\ sheetExists
    /\ "planner_read_raised" \notin invoked
    /\ sheet # <<>>
    /\ \A i \in DOMAIN sheet : ParseTs(sheet[i].Timestamp) = None
    /\ \E i \in DOMAIN sheet : sheet[i].Timestamp = "junk"
    /\ hours = 1

Planned == pc = "fetch" /\ append_mode /\ last_entry_time # None

\* C6 as stated: the window is floor(hours from the last timestamp to now)
\* plus the buffer, also for a last timestamp later than now.
C6_AsStated ==
    Planned =>
        hours = ((The(plan_now) - The(last_entry_time)) \div TicksPerHour) + Buffer

\* C6 amended: for a last timestamp not later than now the window is
\* floor(hours between them) + 2; for a last timestamp later than now it is
\* 2 - floor(hours from now to the last timestamp) (truncation toward zero).
C6_WindowTruncates ==
    Planned =>
        LET d == The(plan_now) - The(last_entry_time)
        IN  hours = IF d >= 0
                    THEN (d \div TicksPerHour) + Buffer
                    ELSE Buffer - ((-d) \div TicksPerHour)

\* last = now - 5h and one tick gives 7
C6_Witness ==
    /\ Planned
    /\ The(plan_now) - The(last_entry_time) = 5 * TicksPerHour + 1
    /\ hours = 7

\* C7: the 'since' bound of every account's request is not later than the
\* prior persisted timestamp.
C7_SinceNotAfterLast ==
    \A a \in Accounts :
        (append_mode /\ last_entry_time # None /\ since[a] # None) =>
            The(since[a]) <= The(last_entry_time)

(***************************************************************************)
(* The collection and enrichment stage on its own: every account's task    *)
(* has been submitted to the pool, the feeds hold up to MaxEvents           *)
(* activities in all.                                                      *)
(***************************************************************************)
InitEnrich ==
    /\ gspread_client = TRUE
    /\ sheetExists = FALSE
    /\ sheet = <<>>
    /\ now = MaxNow
    /\ RunIdle
    /\ HelperIdle
    /\ feed \in { [a \in Accounts |-> OnePage(f[a])] :
                      f \in { g \in [Accounts -> Feeds] : TotalLen(g) <= MaxEvents } }
    /\ cursor = [a \in Accounts |-> 1]
    /\ worker = [a \in Accounts |-> "start"]
    /\ activities = [a \in Accounts |-> <<>>]
    /\ results = [a \in Accounts |-> <<>>]
    /\ all_activities = <<>>
    /\ debug_stats = NoStats
    /\ fetches = [k \in FetchKeys |-> 0]
    /\ requests = <<>>
    /\ returned_df = None

NextEnrich ==
    \/ \E a \in Accounts : GetAccountActivities(a)
    \/ \E a \in Accounts : BuildHierarchy(a)
    \/ \E a \in Accounts : FutureResult(a)
    \/ ReturnFrame

SpecEnrich == InitEnrich /\ [][NextEnrich]_vars

\* C10: for every tier and object id, at most one enrichment request is
\* issued within the run.
C10_AtMostOneFetchPerObject ==
    \A k \in FetchKeys : fetches[k] <= 1

\* the rows built so far in the run, over all accounts
BuiltRows == UNION { Range(results[a]) : a \in Accounts }

\* the ad set a row refers to: the object of an ad set event, or the parent
\* named by the ad of an ad event whose details were read
MidRef(row) ==
    IF row.Object_Type_Raw = "campaign" THEN Some(row.Object_ID)
    ELSE IF /\ row.Object_Type_Raw = "adgroup"
            /\ row.Ad_Status # "N/A"
            /\ row.Object_ID \in DOMAIN GraphObjects.ad
            /\ "adset_id" \in DOMAIN GraphObjects.ad[row.Object_ID]
    THEN Some(GraphObjects.ad[row.Object_ID].adset_id)
    ELSE None

MidRootColumns ==
    {"AdSet_Name", "AdSet_Status", "Campaign_Name", "Campaign_Status",
     "Campaign_Budget_Type", "Campaign_Budget"}

\* C11: any two rows of the run that refer to the same ad set carry the same
\* ad set and campaign column values.
C11_SameMidSameAttributes ==
    \A r1, r2 \in BuiltRows :
        (MidRef(r1) # None /\ MidRef(r1) = MidRef(r2)) =>
            \A c \in MidRootColumns : r1[c] = r2[c]

\* the detail requests issued in the run, as debug_stats counts them
TotalApiCalls ==
    debug_stats.api_calls.campaign + debug_stats.api_calls.adset
        + debug_stats.api_calls.ad

\* the distinct (tier, id) objects the run requested details of
EnrichedIds == { k \in FetchKeys : fetches[k] > 0 }

\* C12: enriching N distinct valid ids takes exactly ceil(N / 50) network
\* calls (and none for N = 0).
C12_CallsAreCeilOfChunks ==
    AllCollected =>
        TotalApiCalls = (Cardinality(EnrichedIds) + 49) \div 50

\* the tier of a request: 1 for an ad, 2 for an ad set, 3 for a campaign
TierRank(tier) == IF tier = "ad" THEN 1 ELSE IF tier = "adset" THEN 2 ELSE 3

\* C13: the run's enrichment requests are ordered by tier: every ad request
\* precedes every ad set request, which precedes every campaign request.
C13_FetchesOrderedByTier ==
    \A i, j \in DOMAIN requests :
        i < j => TierRank(requests[i][1]) <= TierRank(requests[j][1])

\* C14: enrichment starts only when every account's collection is over, and
\* no two tasks resolve hierarchies at the same time.
C14_EnrichmentSingleThreaded ==
    /\ (\E a \in Accounts : worker[a] = "building") =>
           (\A a \in Accounts : worker[a] # "start")
    /\ Cardinality({ a \in Accounts : worker[a] = "building" }) <= 1

\* the rows of all tasks, taken in the order of the accounts
RowsInAccountOrder == results["act_1"] \o results["act_2"]

\* C15: whatever the order in which the tasks complete, the returned frame
\* holds exactly the rows the tasks built, each as often as it was built, in
\* descending Timestamp order.
C15_ReturnedRowsOrderFree ==
    returned_df # None =>
        /\ IsPermutation(The(returned_df), RowsInAccountOrder)
        /\ IsDescending(The(returned_df))

\* the second account's task completed first, the gathered rows were not in
\* order, and the frame was returned
C15_Witness ==
    /\ returned_df # None
    /\ results["act_1"] # <<>>
    /\ results["act_2"] # <<>>
    /\ all_activities = results["act_2"] \o results["act_1"]
    /\ ~IsDescending(all_activities)

(***************************************************************************)
(* _is_valid_meta_id called on its own, on strings of up to MaxIdInput     *)
(* characters: digits, with at most one letter or blank among them and at  *)
(* most one blank before and after.                                        *)
(***************************************************************************)
IdBody(n, k, c) == [i \in 1..n |-> IF i = k THEN c ELSE "7"]

IdInputs ==
    { l \o IdBody(n, k, c) \o r :
        l \in {<<>>, <<" ">>}, r \in {<<>>, <<" ">>},
        n \in 0..(MaxIdInput - 2), k \in 0..(MaxIdInput - 2), c \in {"a", " "} }

InitValid ==
    /\ gspread_client = TRUE
    /\ sheetExists = FALSE
    /\ sheet = <<>>
    /\ now = MaxNow
    /\ RunIdle
    /\ EnrichIdle
    /\ arg \in IdInputs
    /\ ret = None

CallIsValidMetaId ==
    /\ ret = None
    /\ ret' = Some(_is_valid_meta_id(arg))
    /\ UNCHANGED <<arg, runVars, enrichState>>

NextValid == CallIsValidMetaId

SpecValid == InitValid /\ [][NextValid]_vars

\* C16: the validity check answers true exactly for the strings that consist
\* of digits only and have 10 to 25 characters.
C16_ValidIffDigitsInRange ==
    ret # None =>
        (The(ret) <=> (/\ \A i \in DOMAIN arg : arg[i] \in DigitChars
                       /\ Len(arg) >= 10
                       /\ Len(arg) <= 25))

\* the tier whose getter resolves the object of an event of the given type
TierOfType(object_type) ==
    IF object_type = "campaign_group" THEN "campaign"
    ELSE IF object_type = "campaign" THEN "adset"
    ELSE "ad"

ObjectTypes == {"campaign_group", "campaign", "adgroup"}

SkipList == Range(debug_stats.skipped_objects)

\* the status and budget columns of a row whose object of the given tier is
\* unavailable: those of the tier and of the tiers above it are defaults
TierUnavailable(row, tier) ==
    /\ row.Campaign_Status = "N/A"
    /\ row.Campaign_Budget_Type = "N/A"
    /\ row.Campaign_Budget = "N/A"
    /\ tier \in {"adset", "ad"} => row.AdSet_Status = "N/A"
    /\ tier = "ad" => row.Ad_Status = "N/A"

\* an id of digits only, 10 to 25 of them
WellFormedId(s) ==
    /\ \A i \in DOMAIN s : s[i] \in DigitChars
    /\ Len(s) >= MinIdLen
    /\ Len(s) <= MaxIdLen

\* C17: no request is issued for an id that is not well formed, be it the id
\* of an event or the parent id an ad names; such an id is on the skip list
\* and its object's columns stay at their defaults.
C17_InvalidIdsSkippedNotFetched ==
    /\ \A i \in DOMAIN requests : WellFormedId(requests[i][2])
    /\ \A row \in BuiltRows :
          /\ (row.Object_Type_Raw \in ObjectTypes /\ ~WellFormedId(row.Object_ID)) =>
                /\ <<TierOfType(row.Object_Type_Raw), row.Object_ID>> \in SkipList
                /\ TierUnavailable(row, TierOfType(row.Object_Type_Raw))
          /\ (MidRef(row) # None /\ ~WellFormedId(The(MidRef(row)))) =>
                /\ <<"adset", The(MidRef(row))>> \in SkipList
                /\ row.AdSet_Name = "N/A"
                /\ TierUnavailable(row, "adset")

(***************************************************************************)
(* _normalize_brand_name called on its own.  A name is the sequence of its *)
(* characters.                                                             *)
(***************************************************************************)
remove_terms ==
    << <<"p", "v", "t", " ", "l", "t", "d">>,
       <<"p", "r", "i", "v", "a", "t", "e", " ", "l", "i", "m", "i", "t", "e", "d">>,
       <<"p", "v", "t", ".", " ", "l", "t", "d", ".">>,
       <<"p", "r", "i", "v", "a", "t", "e", " ", "l", "t", "d">>,
       <<"l", "l", "p">>,
       <<"o", "p", "c">>,
       <<"l", "i", "m", "i", "t", "e", "d">>,
       <<"l", "t", "d">>,
       <<"i", "n", "c">>,
       <<"c", "o", "r", "p">>,
       <<"-", " ", "c", "u", "r", "r", "e", "n", "t">>,
       <<"-", " ", "n", "e", "w">>,
       <<"-", " ", "o", "l", "d">>,
       <<"d", "o", "m", "e", "s", "t", "i", "c">>,
       <<"e", "x", "p", "o", "r", "t">>,
       <<"t", "h", "e", " ">>,
       <<"a", " ">>,
       <<"a", "n", " ">> >>

\* str.replace(term, ''): the occurrences of term are cut out in one pass
\* from the left
RECURSIVE Replace(_, _)
Replace(s, term) ==
    IF Len(s) < Len(term) THEN s
    ELSE IF SubSeq(s, 1, Len(term)) = term
    THEN Replace(SubSeq(s, Len(term) + 1, Len(s)), term)
    ELSE <<Head(s)>> \o Replace(Tail(s), term)

\* for term in remove_terms: name = name.replace(term, ''), from term i on
RECURSIVE RemoveTerms(_, _)
RemoveTerms(s, i) ==
    IF i > Len(remove_terms) THEN s
    ELSE RemoveTerms(Replace(s, remove_terms[i]), i + 1)

\* ' '.join(s.split()) of a stripped s: every run of whitespace becomes a blank
RECURSIVE Collapse(_)
Collapse(s) ==
    IF s = <<>> THEN <<>>
    ELSE IF Head(s) \in Whitespace THEN <<" ">> \o Collapse(LStrip(s))
    ELSE <<Head(s)>> \o Collapse(Tail(s))

JoinSplit(s) == Collapse(Strip(s))

\* c.isalnum() or c.isspace()
IsAlnumOrSpace(c) ==
    \/ c \in DigitChars
    \/ c \in Whitespace
    \/ \E i \in DOMAIN Lowers : c = Lowers[i] \/ c = Uppers[i]

KeepAlnumOrSpace(s) == SelectSeq(s, IsAlnumOrSpace)

_normalize_brand_name(name) ==
    IF name = <<>> THEN <<>>
    ELSE Strip(KeepAlnumOrSpace(JoinSplit(RemoveTerms(Strip(Lower(name)), 1))))

NameChars == {"a", "n", " ", "&", "A"}

\* the names of up to MaxNameLen characters over NameChars, and two company
\* names
NameInputs ==
    UNION { [1..n -> NameChars] : n \in 0..MaxNameLen }
        \cup { <<"T", "h", "e", " ", "A", "c", "m", "e", " ", "P", "v", "t", " ", "L", "t", "d">>,
               <<"J", "o", "h", "n", "s", "o", "n", " ", "&", " ", "J", "o", "h", "n", "s", "o", "n">> }

InitNormalize ==
    /\ gspread_client = TRUE
    /\ sheetExists = FALSE
    /\ sheet = <<>>
    /\ now = MaxNow
    /\ RunIdle
    /\ EnrichIdle
    /\ arg \in NameInputs
    /\ ret = None

CallNormalizeBrandName ==
    /\ ret = None
    /\ ret' = Some(_normalize_brand_name(arg))
    /\ UNCHANGED <<arg, runVars, enrichState>>

NextNormalize == CallNormalizeBrandName

SpecNormalize == InitNormalize /\ [][NextNormalize]_vars

\* C18: normalizing a normalized name leaves it as it is.
C18_NormalizeIdempotent ==
    ret # None => _normalize_brand_name(The(ret)) = The(ret)

\* the requests issued by the step that is being taken
NewRequests == SubSeq(requests', Len(requests) + 1, Len(requests'))

\* the row account acc's task appends in the step that is being taken
NewRow(acc) == results'[acc][Len(results'[acc])]

\* C19: an ad event whose ad, parent ad set and grandparent campaign are all
\* returned yields a row of level AD whose ad, ad set and campaign columns
\* hold the values of those three objects.
C19_LeafFullyResolved ==
    [][\A acc \in Accounts :
          (/\ Len(results'[acc]) = Len(results[acc]) + 1
           /\ NewRow(acc).Object_Type_Raw = "adgroup"
           /\ Len(NewRequests) = 3
           /\ \A i \in 1..3 : NewRequests[i][3]) =>
              LET row == NewRow(acc)
                  ad == GraphObjects.ad[NewRequests[1][2]]
                  adset == GraphObjects.adset[NewRequests[2][2]]
                  campaign == GraphObjects.campaign[NewRequests[3][2]]
              IN  /\ NewRequests[1][2] = row.Object_ID
                  /\ NewRequests[2][2] = ad.adset_id
                  /\ NewRequests[3][2] = adset.campaign_id
                  /\ row.Hierarchy_Level = "AD"
                  /\ row.Ad_Name = ad.name
                  /\ row.Ad_Status = ad.effective_status
                  /\ row.AdSet_Name = adset.name
                  /\ row.AdSet_Status = adset.effective_status
                  /\ row.Campaign_Name = campaign.name
                  /\ row.Campaign_Status = campaign.effective_status
                  /\ row.Campaign_Budget_Type = "Daily"
                  /\ row.Campaign_Budget = FormatBudget(ToInt(campaign.daily_budget))
      ]_vars

\* the ad event was resolved with all three objects returned
C19_Witness ==
    \E row \in BuiltRows :
        /\ row.Object_ID = AD_1
        /\ row.Hierarchy_Level = "AD"
        /\ row.Ad_Status = "ACTIVE"
        /\ row.AdSet_Name = "set one"
        /\ row.Campaign_Budget = "$50.00"

\* the columns of the tiers above the object of an event of the given type
AncestorColumns(object_type) ==
    IF object_type = "adgroup"
    THEN {"AdSet_Name", "AdSet_Status", "Campaign_Name", "Campaign_Status",
          "Campaign_Budget_Type", "Campaign_Budget"}
    ELSE IF object_type = "campaign"
    THEN {"Campaign_Name", "Campaign_Status", "Campaign_Budget_Type",
          "Campaign_Budget"}
    ELSE {}

\* the level an event of the given type is given
LevelOfType(object_type) ==
    IF object_type = "adgroup" THEN "AD"
    ELSE IF object_type = "campaign" THEN "ADSET"
    ELSE "CAMPAIGN"

C21_AsStated ==
    \A row \in BuiltRows :
        row.Hierarchy_Level =
            IF row.Object_Type_Raw \in ObjectTypes
            THEN LevelOfType(row.Object_Type_Raw)
            ELSE "OTHER:" \o row.Object_Type_Raw

\* C21 amended: the level of every row is CAMPAIGN, ADSET or AD as selected
\* by the event's type tag in lower case, or 'OTHER:' followed by the tag in
\* lower case.
C21_LevelByLowerCasedTag ==
    \A row \in BuiltRows :
        row.Hierarchy_Level =
            IF row.Object_Type_Raw = "campaign_group" THEN "CAMPAIGN"
            ELSE IF row.Object_Type_Raw \in {"campaign", "CAMPAIGN"} THEN "ADSET"
            ELSE IF row.Object_Type_Raw = "adgroup" THEN "AD"
            ELSE IF row.Object_Type_Raw = "ACCOUNT" THEN "OTHER:account"
            ELSE "OTHER:" \o row.Object_Type_Raw

\* an event of a recognized type and one with an upper-case tag were resolved
C21_Witness ==
    /\ \E row \in BuiltRows :
          row.Object_Type_Raw = "ACCOUNT" /\ row.Hierarchy_Level = "OTHER:account"
    /\ \E row \in BuiltRows :
          row.Object_Type_Raw = "adgroup" /\ row.Hierarchy_Level = "AD"

\* the hierarchy columns of a row, the level apart
HierarchyColumns == (DOMAIN DefaultHierarchy) \ {"Hierarchy_Level"}

\* C22 as stated: an event whose type tag is none of the three recognized
\* ones gets the level 'OTHER:' followed by the raw tag, 'N/A' in every
\* hierarchy column, and no enrichment request.
C22_AsStated ==
    [][\A acc \in Accounts :
          (/\ worker[acc] = "building"
           /\ activities'[acc] # activities[acc]
           /\ Head(activities[acc]).object_type \notin ObjectTypes) =>
              /\ NewRow(acc).Hierarchy_Level = "OTHER:" \o Head(activities[acc]).object_type
              /\ \A c \in HierarchyColumns : NewRow(acc)[c] = "N/A"
              /\ NewRequests = <<>>
      ]_vars

\* C22 amended: an event whose type tag, in lower case, is none of the three
\* recognized ones gets the level 'OTHER:' followed by the tag in lower case,
\* 'N/A' in every hierarchy column, no enrichment request and no skip entry.
C22_UnknownTagLeavesDefaults ==
    [][\A acc \in Accounts :
          (/\ worker[acc] = "building"
           /\ activities'[acc] # activities[acc]
           /\ Head(activities[acc]).object_type \notin ObjectTypes \cup {"CAMPAIGN"}) =>
              /\ Len(results'[acc]) = Len(results[acc]) + 1
              /\ NewRow(acc).Hierarchy_Level =
                    IF Head(activities[acc]).object_type = "ACCOUNT"
                    THEN "OTHER:account"
                    ELSE "OTHER:" \o Head(activities[acc]).object_type
              /\ \A c \in HierarchyColumns : NewRow(acc)[c] = "N/A"
              /\ NewRequests = <<>>
              /\ debug_stats'.api_calls = debug_stats.api_calls
              /\ debug_stats'.skipped_objects = debug_stats.skipped_objects
      ]_vars

\* an event of an unrecognized type that carries a valid campaign id was
\* resolved, and nothing was requested in the run
C22_Witness ==
    /\ \E row \in BuiltRows :
          /\ row.Object_Type_Raw = "ACCOUNT"
          /\ row.Object_ID = CAMPAIGN_1
          /\ row.Campaign_Name = "N/A"
    /\ requests = <<>>

(***************************************************************************)
(* The collection and enrichment stage fed with events whose processing    *)
(* raises.                                                                 *)
(***************************************************************************)
InitFault ==
    /\ gspread_client = TRUE
    /\ sheetExists = FALSE
    /\ sheet = <<>>
    /\ now = MaxNow
    /\ RunIdle
    /\ HelperIdle
    /\ feed \in { [a \in Accounts |-> OnePage(f[a])] :
                      f \in { g \in [Accounts -> FaultFeeds] : TotalLen(g) <= MaxEvents } }
    /\ cursor = [a \in Accounts |-> 1]
    /\ worker = [a \in Accounts |-> "start"]
    /\ activities = [a \in Accounts |-> <<>>]
    /\ results = [a \in Accounts |-> <<>>]
    /\ all_activities = <<>>
    /\ debug_stats = NoStats
    /\ fetches = [k \in FetchKeys |-> 0]
    /\ requests = <<>>
    /\ returned_df = None

SpecFault == InitFault /\ [][NextEnrich]_vars

\* C23: when an exception is caught while an event is resolved, it is
\* recorded and the row of the event holds the default in every hierarchy
\* column.
C23_CaughtExceptionGivesDefaultRow ==
    [][\A acc \in Accounts :
          (/\ worker[acc] = "building"
           /\ activities'[acc] # activities[acc]
           /\ debug_stats'.hierarchy_errors # debug_stats.hierarchy_errors) =>
              /\ Len(results'[acc]) = Len(results[acc]) + 1
              /\ \A c \in DOMAIN DefaultHierarchy : NewRow(acc)[c] = DefaultHierarchy[c]
      ]_vars

\* processing the event raises: in the filter or in the hierarchy builder
ProcessingFails(activity) ==
    Raises[activity] \/ activity.object_type = JsonNull

\* C24: the row of every event whose processing does not fail is in the
\* run's output, whatever happens to the other events.
C24_OtherEventsSurvive ==
    returned_df # None =>
        \A a \in Accounts : \A p \in DOMAIN feed[a] : \A i \in DOMAIN feed[a][p].data :
            LET activity == feed[a][p].data[i]
            IN  (IsHuman[activity] /\ ~ProcessingFails(activity)) =>
                    \E j \in DOMAIN The(returned_df) :
                        /\ The(returned_df)[j].Account_ID = a
                        /\ The(returned_df)[j].Object_ID = activity.object_id
                        /\ The(returned_df)[j].Object_Type_Raw = activity.object_type

(***************************************************************************)
(* _is_human_activity called on its own, on events of every combination of *)
(* kind, translated kind and actor name.                                   *)
(***************************************************************************)
FilterKinds ==
    { <<"a", "d", "_", "r", "e", "v", "i", "e", "w", "_", "a", "p", "p", "r", "o", "v", "e", "d">>,
      <<"A", "D", "_", "A", "C", "C", "O", "U", "N", "T", "_", "B", "I", "L", "L", "I", "N", "G", "_", "C", "H", "A", "R", "G", "E">>,
      <<"u", "p", "d", "a", "t", "e", "_", "a", "d">>,
      <<"C", "r", "e", "a", "t", "e", "_", "C", "a", "m", "p", "a", "i", "g", "n">>,
      <<"s", "y", "n", "c">> }

FilterTranslations ==
    { <<>>,
      <<"E", "d", "i", "t", " ", "a", "d">>,
      <<"B", "i", "l", "l", "e", "d">> }

FilterActors ==
    { <<>>,
      <<"A", "l", "i", "c", "e">>,
      <<"M", "e", "t", "a">>,
      <<"S", "Y", "S", "T", "E", "M">>,
      <<"M", "e", "t", "a", " ", "A", "d", "s">> }

FilterInputs ==
    { [Activity(CAMPAIGN_1, "campaign_group", "camp", IsoTs(TicksPerHour))
          EXCEPT !.event_type = k, !.translated_event_type = t, !.actor_name = a] :
        k \in FilterKinds, t \in FilterTranslations, a \in FilterActors }

InitFilter ==
    /\ gspread_client = TRUE
    /\ sheetExists = FALSE
    /\ sheet = <<>>
    /\ now = MaxNow
    /\ RunIdle
    /\ EnrichIdle
    /\ arg \in FilterInputs
    /\ ret = None

CallIsHumanActivity ==
    /\ ret = None
    /\ ret' = Some(_is_human_activity(arg))
    /\ UNCHANGED <<arg, runVars, enrichState>>

NextFilter == CallIsHumanActivity

SpecFilter == InitFilter /\ [][NextFilter]_vars

\* C25: an event is left out exactly when its kind is an excluded one or its
\* actor is, whatever the case of its letters, an automated one.
C25_DroppedIffExcludedOrAutomated ==
    ret # None =>
        (The(ret) = FALSE <=>
            \/ Lower(arg.event_type) \in EXCLUDED_EVENT_TYPES
            \/ Lower(arg.actor_name) \in AutomatedActors)

(***************************************************************************)
(* The collection stage on feeds of several pages: every page but the last *)
(* of a feed carries the cursor of the page after it, and any page may be  *)
(* a failed request, an empty body or a body without 'data'.               *)
(***************************************************************************)
PageData ==
    { <<>>,
      <<Activity(CAMPAIGN_1, "ACCOUNT", "acct", IsoTs(TicksPerHour))>>,
      <<[Activity(CAMPAIGN_1, "ACCOUNT", "bill", IsoTs(2 * TicksPerHour))
            EXCEPT !.event_type = <<"a", "d", "_", "a", "c", "c", "o", "u", "n", "t", "_", "b", "i", "l", "l", "i", "n", "g", "_", "c", "h", "a", "r", "g", "e">>],
        Activity(CAMPAIGN_2, "ACCOUNT", "acct", IsoTs(4 * TicksPerHour)),
        [Activity(CAMPAIGN_1, "ACCOUNT", "sync", IsoTs(3 * TicksPerHour))
            EXCEPT !.event_type = <<"s", "y", "n", "c">>, !.actor_name = <<"M", "e", "t", "a">>]>> }

\* the responses a page request can get
PageBodies ==
    { OkPage(events, None) : events \in PageData }
        \cup {MalformedPage, EmptyPage, FailedPage}

\* the feeds of n pages
PagedFeeds(n) ==
    { [i \in 1..n |->
          IF body[i].kind = "ok" /\ i < n
          THEN OkPage(body[i].data, Some(i + 1))
          ELSE body[i]] :
        body \in [1..n -> PageBodies] }

InitCollect ==
    /\ gspread_client = TRUE
    /\ sheetExists = FALSE
    /\ sheet = <<>>
    /\ now = MaxNow
    /\ RunIdle
    /\ HelperIdle
    /\ feed \in { f \in [Accounts -> UNION { PagedFeeds(k) : k \in 1..(MaxPages - 1) }] :
                      TotalLen(f) <= MaxPages }
    /\ cursor = [a \in Accounts |-> 1]
    /\ worker = [a \in Accounts |-> "start"]
    /\ activities = [a \in Accounts |-> <<>>]
    /\ results = [a \in Accounts |-> <<>>]
    /\ all_activities = <<>>
    /\ debug_stats = NoStats
    /\ fetches = [k \in FetchKeys |-> 0]
    /\ requests = <<>>
    /\ returned_df = None

SpecCollect == InitCollect /\ [][NextEnrich]_vars

\* the events of a page that the inclusion filter keeps
Included(page) == SelectSeq(page.data, LAMBDA act : _is_human_activity(act))

\* the included events of the pages 1..n of an account's feed
RECURSIVE IncludedUpTo(_, _)
IncludedUpTo(acc, n) ==
    IF n = 0 THEN <<>>
    ELSE IncludedUpTo(acc, n - 1) \o Included(feed[acc][n])

\* C26: each pass of an account's page loop requests the page at the cursor;
\* after a body with 'data' and a next cursor the loop goes on with that
\* cursor, and it stops at the first response that has no next cursor or is
\* failed, malformed or empty, returning the included events of the pages
\* received until then.
C26_PagesInCursorOrderUntilStop ==
    [][\A acc \in Accounts :
          (worker[acc] = "start" /\ <<worker'[acc], cursor'[acc]>> # <<worker[acc], cursor[acc]>>) =>
              LET page == feed[acc][cursor[acc]]
                  goes_on == page.kind = "ok" /\ page.next # None
              IN  /\ goes_on =>
                        /\ worker'[acc] = "start"
                        /\ cursor'[acc] = The(page.next)
                        /\ activities'[acc] = IncludedUpTo(acc, cursor[acc])
                  /\ ~goes_on =>
                        /\ worker'[acc] \in {"building", "returned"}
                        /\ cursor'[acc] = cursor[acc]
                        /\ activities'[acc] =
                              IncludedUpTo(acc, IF page.kind = "ok" THEN cursor[acc]
                                                ELSE cursor[acc] - 1)
      ]_vars

\* a feed of two pages is collected to its end
C26_Witness ==
    \E acc \in Accounts :
        /\ Len(feed[acc]) = 2
        /\ cursor[acc] = 2
        /\ feed[acc][2].kind = "ok"
        /\ worker[acc] = "building"
        /\ Len(activities[acc]) = 2

\* the collection of an account stopped at a page whose request failed
StoppedAtFailedPage(acc) ==
    /\ worker[acc] # "start"
    /\ feed[acc][cursor[acc]].kind = "failed"

\* the rows of an account in the returned frame are those of the included
\* events of all its pages, up to the page that ended its collection
CollectedInFull(acc) ==
    LET rows == SelectSeq(The(returned_df), LAMBDA r : r.Account_ID = acc)
        events == IncludedUpTo(acc, cursor[acc])
    IN  /\ Len(rows) = Len(events)
        /\ \A e \in Range(events) : \E r \in Range(rows) :
              /\ r.Object_ID = e.object_id
              /\ r.Timestamp = timestamp_parsed(e.event_time)

\* C27: when a page request of one account fails, the run still returns, and
\* the rows of every other account are all in the returned frame.
C27_FailedPageEndsOneAccountOnly ==
    (returned_df # None) =>
        \A a \in Accounts :
            StoppedAtFailedPage(a) => \A b \in Accounts \ {a} : CollectedInFull(b)

C27_Witness ==
    /\ returned_df # None
    /\ \E a \in Accounts : \E b \in Accounts \ {a} :
          /\ StoppedAtFailedPage(a)
          /\ Len(feed[b]) = 2
          /\ feed[b][2].kind = "ok"
          /\ Len(IncludedUpTo(b, 2)) = 2
          /\ CollectedInFull(b)

(***************************************************************************)
(* _make_api_request, attempt by attempt.  One pass of its loop calls      *)
(* session.get once; the call returns a response with a status code or     *)
(* raises.  arg holds the request and what the passes have done so far,    *)
(* ret the value the function returns.                                     *)
(***************************************************************************)
\* retries=2: the passes are numbered 0..retries
retries == 2

\* the URLs of a request as they appear in the text of an exception: the
\* activity feed asks for 'limit': 500, a detail request names an object id
\* and its fields
RequestUrls ==
    { <<"a", "c", "t", "_", "1", "/", "a", "c", "t", "i", "v", "i", "t", "i", "e", "s", "?", "l", "i", "m", "i", "t", "=", "5", "0", "0">>,
      <<"1", "1", "1", "1", "1", "1", "1", "1", "1", "4", "?", "f", "i", "e", "l", "d", "s", "=", "n", "a", "m", "e">> }

StatusCodes == {200, 400, 401, 403, 404, 429, 500, 503}

\* str(status_code)
StatusText(code) ==
    LET d(n) == ToString(n)
    IN  <<d(code \div 100), d((code \div 10) % 10), d(code % 10)>>

\* what one call of session.get does: a response, a Timeout, another
\* RequestException (a transport failure, its text names the URL), or an
\* exception of another class
Outcomes(url) ==
    { [kind |-> "response", status |-> c, text |-> <<>>] : c \in StatusCodes }
        \cup { [kind |-> "Timeout", status |-> 0, text |-> <<"t", "i", "m", "e", "d", " ", "o", "u", "t">>],
               [kind |-> "RequestException", status |-> 0, text |-> <<"M", "a", "x", " ", "r", "e", "t", "r", "i", "e", "s", " ", "e", "x", "c", "e", "e", "d", "e", "d", " ", "w", "i", "t", "h", " ", "u", "r", "l", ":", " ">> \o url],
               [kind |-> "Exception", status |-> 0, text |-> <<"e", "r", "r", "o", "r">>] }

\* r.raise_for_status(): HTTPError, a RequestException, for a status of 400
\* to 599, with the status and the URL in its text
HTTPError(code, url) ==
    [kind |-> "RequestException", status |-> code,
     text |-> StatusText(code) \o <<" ", "C", "l", "i", "e", "n", "t", " ", "E", "r", "r", "o", "r", " ", "f", "o", "r", " ", "u", "r", "l", ":", " ">> \o url]

\* '500' in str(e)
Has500(e) == IsSubstring(<<"5", "0", "0">>, e.text)

NoApiErrors == [c \in {"400", "403", "404", "500", "other"} |-> 0]

\* the value returned when there is no data
NoData == "None"

NewRequest(url) ==
    [url |-> url, attempt |-> 0, log |-> <<>>, slept |-> <<>>, api_errors |-> NoApiErrors]

\* the pass goes on to the next one after time.sleep(0.5 * (attempt + 1));
\* sleeps are counted in half seconds
Continue(call, outcome) ==
    [call EXCEPT !.attempt = @ + 1,
                 !.log = Append(@, outcome),
                 !.slept = Append(@, call.attempt + 1)]

\* the pass returns, after counting the error under a key if it has one
Return(call, outcome, key) ==
    [call EXCEPT !.log = Append(@, outcome),
                 !.api_errors = [k \in DOMAIN @ |-> IF k = key THEN @[k] + 1 ELSE @[k]]]

\* the except clauses: a Timeout is retried while passes are left; another
\* RequestException is retried only while passes are left and its text
\* contains '500'; anything else returns None
Handle(call, outcome, e) ==
    IF e.kind = "Timeout"
    THEN IF call.attempt < retries
         THEN [call |-> Continue(call, outcome), returns |-> None]
         ELSE [call |-> Return(call, outcome, ""), returns |-> Some(NoData)]
    ELSE IF e.kind = "RequestException"
    THEN IF call.attempt < retries /\ Has500(e)
         THEN [call |-> Continue(call, outcome), returns |-> None]
         ELSE [call |-> Return(call, outcome, "other"), returns |-> Some(NoData)]
    ELSE [call |-> Return(call, outcome, ""), returns |-> Some(NoData)]

\* one pass of the loop on the outcome of session.get
Pass(call, outcome) ==
    IF outcome.kind # "response" THEN Handle(call, outcome, outcome)
    ELSE IF outcome.status \in {400, 403, 404}
    THEN [call |-> Return(call, outcome, ToString(outcome.status)),
          returns |-> Some(NoData)]
    ELSE IF outcome.status >= 500
    THEN IF call.attempt < retries
         THEN [call |-> Continue(call, outcome), returns |-> None]
         ELSE [call |-> Return(call, outcome, "500"), returns |-> Some(NoData)]
    ELSE IF outcome.status >= 400
    THEN Handle(call, outcome, HTTPError(outcome.status, call.url))
    ELSE [call |-> Return(call, outcome, ""), returns |-> Some("json")]

InitRequest ==
    /\ gspread_client = TRUE
    /\ sheetExists = FALSE
    /\ sheet = <<>>
    /\ now = MaxNow
    /\ RunIdle
    /\ EnrichIdle
    /\ arg \in { NewRequest(url) : url \in RequestUrls }
    /\ ret = None

MakeApiRequestPass ==
    /\ ret = None
    /\ \E outcome \in Outcomes(arg.url) :
          /\ arg' = Pass(arg, outcome).call
          /\ ret' = Pass(arg, outcome).returns
    /\ UNCHANGED <<runVars, enrichState>>

NextRequest == MakeApiRequestPass

SpecRequest == InitRequest /\ [][NextRequest]_vars

\* an attempt that failed with a 5xx answer, a timeout or a transport failure
TransientFailure(outcome) ==
    \/ outcome.kind = "response" /\ outcome.status >= 500
    \/ outcome.kind \in {"Timeout", "RequestException"}

\* C28: a request is never attempted more than three times, every repeated
\* attempt comes after a backoff, and a request whose last attempt failed
\* with a 5xx answer, a timeout or a transport failure was attempted three
\* times and returned 'no data'.
C28_TransientFailureRetriedToLimit ==
    /\ Len(arg.log) <= retries + 1
    /\ ret = None => Len(arg.slept) = Len(arg.log)
    /\ ret # None =>
          /\ Len(arg.slept) = Len(arg.log) - 1
          /\ TransientFailure(arg.log[Len(arg.log)]) =>
                /\ Len(arg.log) = retries + 1
                /\ The(ret) = NoData

\* an attempt answered with a 4xx status
ClientError(outcome) ==
    outcome.kind = "response" /\ outcome.status \in 400..499

\* C29: no attempt follows an attempt that was answered with a 4xx status,
\* and the request then returns 'no data'.
C29_ClientErrorAttemptedOnce ==
    \A i \in DOMAIN arg.log :
        ClientError(arg.log[i]) =>
            /\ i = Len(arg.log)
            /\ ret = Some(NoData)

(***************************************************************************)
(* Brand matching: map_airtable_to_activities builds brand_mapping_dict    *)
(* from the Airtable rows, map_brand_data looks a brand up in it with      *)
(* _find_best_brand_match.  The dict is the sequence of its entries in     *)
(* insertion order.                                                        *)
(***************************************************************************)
\* Airtable rows: brand, FB manager, brand manager, team (None: not filled)
AirtableRows ==
    { [brand |-> <<"A", "c", "m", "e", " ", "F", "o", "o", "d", "s", " ", "L", "t", "d">>, fb_manager |-> Some("fb one"),
       brand_manager |-> Some("bm one"), team |-> Some("team one")],
      [brand |-> <<" ", "A", "c", "m", "e", " ", "F", "o", "o", "d", "s", " ", "P", "v", "t", " ", "L", "t", "d">>, fb_manager |-> Some("fb two"),
       brand_manager |-> None, team |-> Some("team two")],
      [brand |-> <<"Z", "e", "t", "a">>, fb_manager |-> Some("fb three"),
       brand_manager |-> Some("bm three"), team |-> None],
      [brand |-> <<"F", "o", "o", "d", "s", " ", "E", "x", "p", "o", "r", "t">>, fb_manager |-> Some("fb four"),
       brand_manager |-> Some("bm four"), team |-> Some("team four")] }

\* the Brand values of activity rows
BrandNames ==
    { <<>>,
      <<"A", "C", "M", "E", " ", "F", "O", "O", "D", "S">>,
      <<"A", "c", "m", "e", " ", "F", "o", "o", "d", "s", " ", "I", "n", "d", "i", "a">>,
      <<"a", "c", "m", "e">>,
      <<"F", "o", "o", "d", "s">>,
      <<"f", "o", "o", "d">>,
      <<"Z", "e", "t", "a", " ", "I", "n", "c">>,
      <<"L", "t", "d">>,
      <<"A", "c", "m", "e", " ", "F", "o", "o", "d">> }

\* _normalize_brand_name, tabulated over the names in use
NormalizedName ==
    [name \in BrandNames \cup { Strip(row.brand) : row \in AirtableRows } |->
        _normalize_brand_name(name)]

\* row[col] if col and pd.notna(row[col]) else 'Not Assigned'
OrNotAssigned(cell) == IF cell # None THEN The(cell) ELSE "Not Assigned"

\* brand_mapping_dict[normalized] = {...}: a new key is added at the end, a
\* known key keeps its place and gets the new value
SetItem(dict, entry) ==
    IF \E i \in DOMAIN dict : dict[i].key = entry.key
    THEN [i \in DOMAIN dict |-> IF dict[i].key = entry.key THEN entry ELSE dict[i]]
    ELSE Append(dict, entry)

\* the loop over brand_mapping_df.iterrows()
RECURSIVE BuildMappingDict(_)
BuildMappingDict(rows) ==
    IF rows = <<>> THEN <<>>
    ELSE LET dict == BuildMappingDict(SubSeq(rows, 1, Len(rows) - 1))
             row == rows[Len(rows)]
             brand_name == Strip(row.brand)
             normalized == NormalizedName[brand_name]
         IN  IF brand_name # <<>> /\ normalized # <<>>
             THEN SetItem(dict, [key |-> normalized,
                                 original_name |-> brand_name,
                                 FB_Manager |-> OrNotAssigned(row.fb_manager),
                                 Brand_Manager |-> OrNotAssigned(row.brand_manager),
                                 Current_Team |-> OrNotAssigned(row.team)])
             ELSE dict

\* a match on containment alone
_find_best_brand_match_any_length(brand_name, brand_mapping_dict) ==
    IF brand_name = <<>> THEN None
    ELSE LET normalized_input == NormalizedName[brand_name]
             contained == SelectSeq(brand_mapping_dict, LAMBDA e :
                              IsSubstring(normalized_input, e.key)
                                \/ IsSubstring(e.key, normalized_input))
         IN  IF contained # <<>> THEN Some(Head(contained)) ELSE None

\* _find_best_brand_match: the entry under the normalized name; else the
\* first entry, in dict order, whose key contains the normalized name or is
\* contained in it, both being of five characters at least; else None
_find_best_brand_match(brand_name, brand_mapping_dict) ==
    IF brand_name = <<>> THEN None
    ELSE LET normalized_input == NormalizedName[brand_name]
             exact == SelectSeq(brand_mapping_dict, LAMBDA e : e.key = normalized_input)
             fuzzy == SelectSeq(brand_mapping_dict, LAMBDA e :
                          /\ \/ IsSubstring(normalized_input, e.key)
                             \/ IsSubstring(e.key, normalized_input)
                          /\ Len(normalized_input) >= 5
                          /\ Len(e.key) >= 5)
         IN  IF exact # <<>> THEN Some(Head(exact))
             ELSE IF fuzzy # <<>> THEN Some(Head(fuzzy))
             ELSE None

\* the columns of a matched brand
MatchedIdentity(match) ==
    [Matched_Airtable_Brand |-> match.original_name,
     FB_Manager |-> match.FB_Manager,
     Brand_Manager |-> match.Brand_Manager,
     Current_Team |-> match.Current_Team]

\* the columns of a brand without a match
UnknownIdentity ==
    [Matched_Airtable_Brand |-> <<>>,
     FB_Manager |-> "Unknown",
     Brand_Manager |-> "Unknown",
     Current_Team |-> "Unknown"]

map_brand_data(brand_name, brand_mapping_dict) ==
    LET match == _find_best_brand_match(brand_name, brand_mapping_dict)
    IN  IF match # None THEN MatchedIdentity(The(match)) ELSE UnknownIdentity

InitMatch ==
    /\ gspread_client = TRUE
    /\ sheetExists = FALSE
    /\ sheet = <<>>
    /\ now = MaxNow
    /\ RunIdle
    /\ EnrichIdle
    /\ arg \in { [brand_name |-> name, brand_mapping_dict |-> BuildMappingDict(rows)] :
                    name \in BrandNames,
                    rows \in UNION { [1..n -> AirtableRows] : n \in 0..MaxAirtable } }
    /\ ret = None

CallMapBrandData ==
    /\ ret = None
    /\ ret' = Some(map_brand_data(arg.brand_name, arg.brand_mapping_dict))
    /\ UNCHANGED <<arg, runVars, enrichState>>

NextMatch == CallMapBrandData

SpecMatch == InitMatch /\ [][NextMatch]_vars

\* the entry's key contains the normalized name or is contained in it, and
\* both have five characters at least
Qualifies(entry, normalized_input) ==
    /\ \/ IsSubstring(normalized_input, entry.key)
       \/ IsSubstring(entry.key, normalized_input)
    /\ Len(normalized_input) >= 5
    /\ Len(entry.key) >= 5

InitNull ==
    /\ gspread_client = TRUE
    /\ sheetExists = FALSE
    /\ sheet = <<>>
    /\ now = MaxNow
    /\ RunIdle
    /\ HelperIdle
    /\ feed \in { [a \in Accounts |-> OnePage(f[a])] :
                      f \in { g \in [Accounts -> NullFeeds] : TotalLen(g) <= MaxEvents } }
    /\ cursor = [a \in Accounts |-> 1]
    /\ worker = [a \in Accounts |-> "start"]
    /\ activities = [a \in Accounts |-> <<>>]
    /\ results = [a \in Accounts |-> <<>>]
    /\ all_activities = <<>>
    /\ debug_stats = NoStats
    /\ fetches = [k \in FetchKeys |-> 0]
    /\ requests = <<>>
    /\ returned_df = None

SpecNull == InitNull /\ [][NextEnrich]_vars

\* C31: in every row of the returned frame every hierarchy column is
\* present and holds a value, never a null.
C31_NoHierarchyFieldNull ==
    returned_df # None =>
        \A i \in DOMAIN The(returned_df) : \A c \in DOMAIN DefaultHierarchy :
            /\ c \in DOMAIN The(returned_df)[i]
            /\ The(returned_df)[i][c] # JsonNull

(***************************************************************************)
(* __main__: the environment is read and checked, the tracker is built     *)
(* and run once in append mode, and the process exits.  arg holds the      *)
(* environment, ret the position of the process: None before the check,    *)
(* "tracker" once the tracker is built, "exit 1" or "exit 0" after         *)
(* sys.exit(1) or sys.exit(0).                                             *)
(***************************************************************************)
RequiredVars ==
    {"META_ACCESS_TOKEN", "AIRTABLE_TOKEN", "AIRTABLE_BASE_ID", "AIRTABLE_TABLE_NAME",
     "GOOGLE_SPREADSHEET_ID"}

\* os.getenv of each variable: None when unset, else its text
Environments ==
    [RequiredVars \cup {"GOOGLE_CREDENTIALS_PATH"} -> {None, Some(""), Some("value")}]

\* a check that leaves out the spreadsheet id
missing_vars_but_sheet_id(env) ==
    { v \in RequiredVars \ {"GOOGLE_SPREADSHEET_ID"} : env[v] = None \/ env[v] = Some("") }

\* missing_vars: the required variables that are unset or empty
missing_vars(env) ==
    { v \in RequiredVars : env[v] = None \/ env[v] = Some("") }

InitMain ==
    /\ gspread_client = FALSE
    /\ sheetExists \in BOOLEAN
    /\ sheet = <<>>
    /\ now = MaxNow
    /\ RunIdle
    /\ EnrichIdle
    /\ arg \in Environments
    /\ ret = None

\* the check of the environment: sys.exit(1) when a variable is missing;
\* else the tracker is built, which authorizes the Google client or leaves
\* it None
MainStartup ==
    /\ ret = None
    /\ IF missing_vars(arg) # {}
       THEN /\ ret' = Some("exit 1")
            /\ UNCHANGED gspread_client
       ELSE /\ ret' = Some("tracker")
            /\ gspread_client' \in BOOLEAN
    /\ UNCHANGED <<sheetExists, sheet, now, pc, RunLocals>>
    /\ UNCHANGED <<arg, enrichState>>

\* tracker.run(hours=hours, append_mode=True, save_csv=False), step by step
MainRun ==
    /\ ret = Some("tracker")
    /\ \/ \E h \in HoursArgs : RunStart(TRUE, h)
       \/ PlanWindow
       \/ \E a \in Accounts : RequestActivities(a)
       \/ Collect
       \/ Upload

\* run() has returned: sys.exit(0)
MainExit ==
    /\ ret = Some("tracker")
    /\ pc = "done"
    /\ ret' = Some("exit 0")
    /\ UNCHANGED <<arg, runVars, enrichState>>

NextMain ==
    \/ MainStartup
    \/ MainRun
    \/ MainExit

SpecMain == InitMain /\ [][NextMain]_vars

\* a required variable is unset or empty
ConfigurationAbsent ==
    \E v \in RequiredVars : arg[v] \in {None, Some("")}

\* C32: with a required configuration value absent, the only step of the
\* process is its exit with status 1: no component was invoked, no request
\* was issued and the sheet is as it was.
C32_AbortsBeforeNetworkAndSink ==
    [][ConfigurationAbsent =>
          /\ ret = None
          /\ ret' = Some("exit 1")
          /\ UNCHANGED <<runVars, enrichState, arg>>
          /\ invoked = {}
          /\ requests = <<>>
          /\ \A a \in Accounts : since[a] = None
      ]_vars

\* the process exited with status 1 on a missing spreadsheet id
C32_Witness ==
    /\ ret = Some("exit 1")
    /\ arg["GOOGLE_SPREADSHEET_ID"] = None
    /\ \A v \in RequiredVars \ {"GOOGLE_SPREADSHEET_ID"} : arg[v] = Some("value")
    /\ pc = "idle"
    /\ invoked = {}

\* the step's requests hold a successful one for the tier
FetchedOk(tier) == \E j \in DOMAIN NewRequests : NewRequests[j][1] = tier /\ NewRequests[j][3]

\* C33: while an event is resolved, an ad set is requested for an ad event
\* only after the event's ad was returned and names that ad set, and a
\* campaign is requested as an ancestor only after an ad set was returned
\* that names it; a row has ancestor columns filled only if every tier below
\* was returned.
C33_ParentFetchedAfterChildReturned ==
    [][\A acc \in Accounts :
          (worker[acc] = "building" /\ Len(results'[acc]) = Len(results[acc]) + 1) =>
              LET row == NewRow(acc)
                  new == NewRequests
              IN  /\ \A i \in DOMAIN new :
                        /\ (row.Hierarchy_Level = "AD" /\ new[i][1] = "adset") =>
                              \E j \in 1..(i - 1) :
                                  /\ new[j] = <<"ad", row.Object_ID, TRUE>>
                                  /\ GraphObjects.ad[new[j][2]].adset_id = new[i][2]
                        /\ (row.Hierarchy_Level \in {"AD", "ADSET"} /\ new[i][1] = "campaign") =>
                              \E j \in 1..(i - 1) :
                                  /\ new[j][1] = "adset"
                                  /\ new[j][3]
                                  /\ GraphObjects.adset[new[j][2]].campaign_id = new[i][2]
                        /\ (row.Hierarchy_Level = "ADSET" /\ new[i][1] = "adset") =>
                              i = 1 /\ new[i][2] = row.Object_ID
                  /\ (/\ row.Hierarchy_Level = "AD"
                      /\ \E c \in {"AdSet_Name", "AdSet_Status"} : row[c] # DefaultHierarchy[c]) =>
                        FetchedOk("ad") /\ FetchedOk("adset")
                  /\ (/\ row.Hierarchy_Level \in {"AD", "ADSET"}
                      /\ \E c \in {"Campaign_Name", "Campaign_Status", "Campaign_Budget_Type",
                                   "Campaign_Budget"} : row[c] # DefaultHierarchy[c]) =>
                        /\ FetchedOk("adset")
                        /\ FetchedOk("campaign")
                        /\ row.Hierarchy_Level = "AD" => FetchedOk("ad")
      ]_vars

\* an ad event whose ad was returned and whose ad set was not: the campaign
\* was not requested
C33_Witness ==
    /\ \E acc \in Accounts : \E i \in DOMAIN results[acc] :
          /\ results[acc][i].Object_ID = AD_3
          /\ results[acc][i].Ad_Name = "ad three"
          /\ results[acc][i].AdSet_Name = "N/A"
    /\ requests = << <<"ad", AD_3, TRUE>>, <<"adset", ADSET_3, FALSE>> >>

\* C34: in the row of every resolved event the budget type and the budget
\* amount are both 'N/A' or both set; the type is 'Daily' exactly when the
\* campaign that was returned has a daily budget, 'Lifetime' exactly when
\* it has a lifetime budget and no daily one, 'N/A' when it has neither or
\* no campaign was returned, whatever the tier of the event.
C34_BudgetTypeAndAmountAgree ==
    [][\A acc \in Accounts :
          (worker[acc] = "building" /\ Len(results'[acc]) = Len(results[acc]) + 1) =>
              LET row == NewRow(acc)
                  returned == { NewRequests[j][2] : j \in { i \in DOMAIN NewRequests :
                                    NewRequests[i][1] = "campaign" /\ NewRequests[i][3] } }
                  daily == \E k \in returned : "daily_budget" \in DOMAIN GraphObjects.campaign[k]
                  lifetime == \E k \in returned :
                                  "lifetime_budget" \in DOMAIN GraphObjects.campaign[k]
              IN  /\ row.Campaign_Budget_Type = "N/A" <=> row.Campaign_Budget = "N/A"
                  /\ row.Campaign_Budget_Type = "Daily" <=> daily
                  /\ row.Campaign_Budget_Type = "Lifetime" <=> (lifetime /\ ~daily)
                  /\ row.Campaign_Budget_Type \in {"N/A", "Daily", "Lifetime"}
      ]_vars

(***************************************************************************)
(* create_unique_id called on its own, on pairs of rows.  Object names are *)
(* free text and a timestamp that strptime rejects is kept as the feed     *)
(* gave it, so either may hold the '_' that joins the key.                 *)
(***************************************************************************)
KeyRows ==
    RowPool \cup { Row("act_1", "Sale_junk", "", "update", "c1"),
                   Row("act_1", "Sale", "junk_", "update", "c1") }

InitKey ==
    /\ gspread_client = TRUE
    /\ sheetExists = FALSE
    /\ sheet = <<>>
    /\ now = MaxNow
    /\ RunIdle
    /\ EnrichIdle
    /\ arg \in KeyRows \X KeyRows
    /\ ret = None

CallCreateUniqueId ==
    /\ ret = None
    /\ ret' = Some(<<create_unique_id(arg[1]), create_unique_id(arg[2])>>)
    /\ UNCHANGED <<arg, runVars, enrichState>>

NextKey == CallCreateUniqueId

SpecKey == InitKey /\ [][NextKey]_vars

\* the (account id, object display name, timestamp, action) tuple of a row
IdentityTuple(row) == <<row.Account_ID, row.Object_Name, row.Timestamp, row.Action>>

\* C35: two rows get the same composite key exactly when their identity
\* tuples are equal component by component.
C35_SameKeyIffSameTuple ==
    ret # None =>
        (The(ret)[1] = The(ret)[2] <=> IdentityTuple(arg[1]) = IdentityTuple(arg[2]))

\* no two rows of the frame share a composite key
UniqueKeys(df) ==
    \A i, j \in DOMAIN df : create_unique_id(df[i]) = create_unique_id(df[j]) => i = j

\* C36: after an append-mode run on a sheet in which no two rows shared a
\* composite key, no two rows of the sheet share one.
C36_KeysStayUnique ==
    (pc = "done" /\ append_mode /\ UniqueKeys(before)) => UniqueKeys(sheet)

\* the run's call of upload_to_sheets ended in its except clause: nothing
\* was handed to the bulk write, or the bulk write raised
UploadFailed ==
    /\ pc = "done"
    /\ gspread_client
    /\ final_df # <<>>
    /\ uploaded_df = None \/ sheet # The(uploaded_df)

\* C37: when upload_to_sheets ends in its error path the sheet holds what it
\* held before the call.
C37_FailedUploadLeavesSheet ==
    UploadFailed => sheet = before

(***************************************************************************)
(* The api_calls counters under the thread pool.  fetch_meta_activities     *)
(* submits one _process_account per account to a ThreadPoolExecutor; each   *)
(* thread's get_<tier>_details runs                                         *)
(*     self.debug_stats['api_calls'][tier] += 1                             *)
(* on the shared dict, with no lock, and then issues the request.  The      *)
(* statement is a subscript load, an add and a subscript store; another     *)
(* thread may run between the load and the store.  arg[acc] holds the       *)
(* thread's position: the tiers of the detail calls it still has to make    *)
(* and the value it has loaded.                                             *)
(***************************************************************************)
DetailPlans == UNION { [1..n -> Tiers] : n \in 0..MaxCalls }

DetailIdOf == [campaign |-> CAMPAIGN_1, adset |-> ADSET_1, ad |-> AD_1]

InitCounters ==
    /\ gspread_client = TRUE
    /\ sheetExists = FALSE
    /\ sheet = <<>>
    /\ now = MaxNow
    /\ RunIdle
    /\ EnrichIdle
    /\ arg \in { [a \in Accounts |-> [todo |-> p[a], loaded |-> None]] :
                     p \in [Accounts -> DetailPlans] }
    /\ ret = None

\* the load of debug_stats['api_calls'][tier] in `+= 1`
LoadCounter(acc) ==
    /\ arg[acc].todo # <<>>
    /\ arg[acc].loaded = None
    /\ arg' = [arg EXCEPT
                  ![acc].loaded = Some(debug_stats.api_calls[Head(arg[acc].todo)])]
    /\ UNCHANGED <<ret, runVars, enrichState>>

\* the store of the incremented value, and the request that follows it
StoreCounter(acc) ==
    /\ arg[acc].loaded # None
    /\ LET tier == Head(arg[acc].todo)
       IN  /\ debug_stats' =
                  [debug_stats EXCEPT !.api_calls[tier] = The(arg[acc].loaded) + 1]
           /\ requests' = Append(requests, <<tier, DetailIdOf[tier], TRUE>>)
    /\ arg' = [arg EXCEPT ![acc] = [todo |-> Tail(arg[acc].todo), loaded |-> None]]
    /\ UNCHANGED <<ret, runVars, feed, cursor, worker, activities, results,
                   all_activities, fetches, returned_df>>

NextCounters ==
    \E acc \in Accounts : LoadCounter(acc) \/ StoreCounter(acc)

SpecCounters == InitCounters /\ [][NextCounters]_vars

\* every thread of the pool has made all its detail calls
ThreadsDone == \A acc \in Accounts : arg[acc].todo = <<>>

\* C38: when the threads have finished, each api_calls counter equals the
\* number of detail requests issued for its tier.
C38_ApiCallsCountersExact ==
    ThreadsDone =>
        \A tier \in Tiers :
            debug_stats.api_calls[tier]
                = Cardinality({ i \in DOMAIN requests : requests[i][1] = tier })

====
